---- MODULE Spec2Model ----
(***************************************************************************)
(* Cost-partitioning heuristic engine of scorpion: projections, the        *)
(* saturated cost partitioning core, the online SCP heuristic and the      *)
(* filtered systematic pattern-collection driver.                          *)
(*                                                                         *)
(* Variable, operator and fact ids are 0-based as in the source; patterns, *)
(* orders and collections are TLA+ sequences (1-based positions).          *)
(***************************************************************************)
EXTENDS Integers, Sequences, FiniteSets, TLC

VARIABLES
    \* ---- task view
    costs,                  \* operator costs of the task (online heuristic member `costs`)
    \* ---- cost-partitioning core (one run over an order)
    cp_order,               \* the abstractions processed so far, in order
    remaining_costs,        \* remaining cost vector of the run
    cp_last,                \* record of the last processed abstraction (pattern, costs before, d, sat)
    \* ---- online SCP heuristic: options
    interval,
    use_evaluated_state_as_sample,
    saturator,
    max_optimization_time,
    max_orders,
    \* ---- online SCP heuristic: members
    abstractions,           \* patterns of the projections; emptied when improvement ends
    abstraction_functions,  \* empty while improving; afterwards one slot per abstraction
    cp_heuristics,          \* the stored collection S
    improve_heuristic,
    size_kb,
    num_evaluated_states,
    num_scps_computed,
    seen_facts,             \* ids of the facts marked seen
    seen_fact_pairs,        \* entries <<id1, id2>> of the pair matrix that are set
    heuristic_cache,        \* per state: NO_VALUE, IS_NOVEL or IS_NOT_NOVEL (estimates are not cached)
    timer,                  \* accumulated improvement time in ticks, and whether it runs
    aborted,                \* the process ended in ABORT
    \* ---- observers of the call sequence
    generated,              \* ids of the states the search has generated
    protocol,               \* novelty tracking: whether notify_initial_state came first, late or not yet
    novelty_log,            \* per state: what its novelty computation saw and returned
    num_queries,            \* compute_heuristic calls so far
    value_queries,          \* compute_heuristic calls that returned a value
    last,                   \* the last call and what it did
    \* ---- pattern-collection driver: options
    saturate,
    ignore_useless_patterns,
    dead_end_treatment,
    max_patterns,
    max_pdb_size,
    max_collection_size,
    pattern_order,
    domains,                \* the domain sizes get_variable_domains read from the task
    \* ---- pattern-collection driver: the sequential pattern generator
    default_order_type,     \* the order type the constructor drew
    current_order_type,     \* the order type the last restart drew ("NONE" before)
    cached_pattern_size,    \* largest pattern size materialised so far
    orders,                 \* per materialised size the patterns of that size, in order
    \* ---- pattern-collection driver: state of generate and of the running restart
    projections,            \* patterns of the selected projections, in selection order
    pattern_set,
    used_var_pairs,         \* entries <<var1, var2>> of the matrix that are set
    collection_size,
    num_pattern_evaluations,
    limit_reached,
    num_patterns_before,
    select_costs,           \* the local `costs` of select_systematic_patterns
    pattern_id,
    driver_pc,              \* where generate stands: idle, generate, select, returned, done
    select_last,            \* what the last loop iteration of the restart did
    \* ---- the process
    exit_code,              \* the code utils::exit_with ended the process with ("none" before)
    \* ---- landmark-count heuristic: options, landmark factory and task
    admissible,
    use_preferred_operators,
    cost_partitioning,
    reasonable_orders,
    conditional_effects_supported,
    task_has_axioms,
    task_has_conditional_effects,
    \* ---- landmark-count heuristic: members and the last call
    lm_cost_assignment,     \* "unset" before construction, "nullptr" or the kind of assignment
    dead_ends_reliable,
    lm_last,                \* the last call of the landmark-count heuristic and what it did
    \* ---- a projection on its own
    projection,             \* the members of the projection constructed last
    hash_lookups            \* the last two calls of get_abstract_state_id: state and index

cpVars == <<cp_order, remaining_costs, cp_last>>
optionVars == <<interval, use_evaluated_state_as_sample, saturator,
                max_optimization_time, max_orders>>
memberVars == <<abstractions, abstraction_functions, cp_heuristics, improve_heuristic,
                size_kb, num_evaluated_states, num_scps_computed, seen_facts,
                seen_fact_pairs, heuristic_cache, timer, aborted>>
observerVars == <<generated, protocol, novelty_log, num_queries, value_queries, last>>
onlineVars == <<optionVars, memberVars, observerVars>>
driverOptionVars == <<saturate, ignore_useless_patterns, dead_end_treatment, max_patterns,
                      max_pdb_size, max_collection_size, pattern_order,
                      domains>>
driverVars == <<driverOptionVars, default_order_type, current_order_type,
                cached_pattern_size, orders, projections, pattern_set,
                used_var_pairs, collection_size, num_pattern_evaluations, limit_reached,
                num_patterns_before, select_costs, pattern_id, driver_pc, select_last>>
landmarkVars == <<exit_code, admissible, use_preferred_operators, cost_partitioning,
                  reasonable_orders, conditional_effects_supported, task_has_axioms,
                  task_has_conditional_effects, lm_cost_assignment, dead_ends_reliable,
                  lm_last>>
projectionVars == <<projection, hash_lookups>>
vars == <<costs, cpVars, onlineVars, driverVars, landmarkVars, projectionVars>>

-----------------------------------------------------------------------------
(* Bounds of the model *)

\* operator costs of the task are drawn from 0..MaxCost
MaxCost == 1

\* a cost-partitioning run processes at most MaxOrderLen abstractions
MaxOrderLen == 2

\* intervals 1..MaxInterval are tried besides -2, -1 and 0
MaxInterval == 2

\* compute_heuristic is called at most MaxQueries times
MaxQueries == 3

\* the search generates at most MaxGenerated states before the heuristic is
\* queried for the last time
MaxGenerated == 3

\* a search that only generates states generates at most MaxNotified of them
MaxNotified == 5

\* the driver's option max_patterns is drawn from 1..MaxPatterns
MaxPatterns == 2

\* the sequential generator is asked for the pattern ids 0..MaxPatternId
MaxPatternId == 6

-----------------------------------------------------------------------------
(* Program constants *)

\* numeric_limits<int>::max(), the representation of +infinity
INF == 2147483647

\* results of the heuristic interface and markers kept in heuristic_cache
DEAD_END == -1
NO_VALUE == -2
IS_NOVEL == -3
IS_NOT_NOVEL == -4

-----------------------------------------------------------------------------
(* Generic helpers *)

Max(a, b) == IF a >= b THEN a ELSE b
Min(a, b) == IF a <= b THEN a ELSE b

RECURSIVE SetMax(_)
SetMax(S) ==
    LET x == CHOOSE y \in S : TRUE
    IN  IF S = {x} THEN x ELSE Max(x, SetMax(S \ {x}))

RECURSIVE SetMin(_)
SetMin(S) ==
    LET x == CHOOSE y \in S : TRUE
    IN  IF S = {x} THEN x ELSE Min(x, SetMin(S \ {x}))

\* all permutations of 1..n, as sequences
AllOrders(n) ==
    {p \in [1..n -> 1..n] : \A i, j \in 1..n : i # j => p[i] # p[j]}

\* a function as an explicit table of its values (the same function)
Table(f) == f @@ <<>>

\* addition on costs and distances: +infinity is absorbing, then -infinity
Add(a, b) ==
    IF a = INF \/ b = INF THEN INF
    ELSE IF a = -INF \/ b = -INF THEN -INF
    ELSE a + b

-----------------------------------------------------------------------------
(* Task view: a grounded planning task.  Three binary variables; initial   *)
(* state (0,1,0); goal v0=1, v1=0.                                         *)
(*   op0: pre {}                 eff {v0:=1}                               *)
(*   op1: pre {v0=0, v1=1}       eff {v1:=0}                               *)
(*   op2: pre {v0=0, v2=0}       eff {v1:=0, v2:=1}                        *)
(*   op3: pre {v0=0, v2=1}       eff {v0:=1, v1:=0}                        *)
(*   op4: pre {v2=1}             eff {v1:=1}                               *)
(* The states with v0=1 and v1=1 are dead ends.                            *)
(* Facts are pairs <<var, value>>.                                         *)

DomainSizes == <<2, 2, 2>>
NumVars == Len(DomainSizes)
Vars == 0..(NumVars - 1)
Dom(v) == DomainSizes[v + 1]

OpPre == << {}, {<<0, 0>>, <<1, 1>>}, {<<0, 0>>, <<2, 0>>}, {<<0, 0>>, <<2, 1>>},
           {<<2, 1>>} >>
OpEff == << {<<0, 1>>}, {<<1, 0>>}, {<<1, 0>>, <<2, 1>>}, {<<0, 1>>, <<1, 0>>},
           {<<1, 1>>} >>
NumOps == Len(OpPre)
Ops == 0..(NumOps - 1)
Pre(o) == OpPre[o + 1]
Eff(o) == OpEff[o + 1]

Goal == {<<0, 1>>, <<1, 0>>}
InitialState == [v \in Vars |-> IF v = 1 THEN 1 ELSE 0]

States == {s \in [Vars -> 0..1] : \A v \in Vars : s[v] < Dom(v)}

Applicable(o, s) == \A f \in Pre(o) : s[f[1]] = f[2]
Successor(o, s) ==
    [v \in Vars |-> IF \E f \in Eff(o) : f[1] = v
                    THEN (CHOOSE f \in Eff(o) : f[1] = v)[2]
                    ELSE s[v]]

-----------------------------------------------------------------------------
(* Projection onto a pattern (a strictly increasing sequence of variables) *)

RECURSIVE Product(_, _)
Product(pattern, n) ==
    IF n = 0 THEN 1 ELSE Product(pattern, n - 1) * Dom(pattern[n])

\* mutant: every pattern variable gets the multiplier 1
hash_multipliers_all_one(pattern) == [i \in 1..Len(pattern) |-> 1]

\* hash_multipliers[i] = product of the domain sizes of the earlier pattern variables
hash_multipliers(pattern) == [i \in 1..Len(pattern) |-> Product(pattern, i - 1)]
num_states(pattern) == Product(pattern, Len(pattern))
AbstractStates(pattern) == 0..(num_states(pattern) - 1)

\* value of the i-th pattern variable in the abstract state with this index
ValueAt(pattern, index, i) ==
    (index \div hash_multipliers(pattern)[i]) % Dom(pattern[i])

PatternPos(pattern, v) == CHOOSE i \in 1..Len(pattern) : pattern[i] = v
InPattern(pattern, v) == \E i \in 1..Len(pattern) : pattern[i] = v

RECURSIVE HashSum(_, _, _)
HashSum(pattern, state, n) ==
    IF n = 0 THEN 0
    ELSE HashSum(pattern, state, n - 1) + hash_multipliers(pattern)[n] * state[pattern[n]]

\* perfect hash of a concrete state
hash_index(pattern, state) == HashSum(pattern, state, Len(pattern))
get_abstract_state_id(pattern, state) == hash_index(pattern, state)

is_goal_state(pattern, index) ==
    \A f \in Goal :
        InPattern(pattern, f[1]) => ValueAt(pattern, index, PatternPos(pattern, f[1])) = f[2]

is_operator_relevant(pattern, o) == \E f \in Eff(o) : InPattern(pattern, f[1])

\* the abstract precondition of o holds in the abstract state
AbstractApplicable(pattern, o, index) ==
    \A f \in Pre(o) :
        InPattern(pattern, f[1]) => ValueAt(pattern, index, PatternPos(pattern, f[1])) = f[2]

RECURSIVE EffDelta(_, _, _, _)
EffDelta(pattern, o, index, n) ==
    IF n = 0 THEN 0
    ELSE EffDelta(pattern, o, index, n - 1) +
         (IF \E f \in Eff(o) : f[1] = pattern[n]
          THEN hash_multipliers(pattern)[n] *
               ((CHOOSE f \in Eff(o) : f[1] = pattern[n])[2] - ValueAt(pattern, index, n))
          ELSE 0)

\* successor index: predecessor index plus the hash delta of the effects
AbstractSuccessor(pattern, o, index) == index + EffDelta(pattern, o, index, Len(pattern))

\* the (pred, succ) pairs the abstract operators of o induce, self-loops included
Transitions(pattern, o) ==
    IF is_operator_relevant(pattern, o)
    THEN {<<i, AbstractSuccessor(pattern, o, i)>> :
            i \in {j \in AbstractStates(pattern) : AbstractApplicable(pattern, o, j)}}
    ELSE {}

StateChanging(pattern, o) == {t \in Transitions(pattern, o) : t[1] # t[2]}

\* the non-empty patterns over the task's variables, in the order in which the
\* systematic generator enumerates them (by size, then lexicographically)
AllPatterns == << <<0>>, <<1>>, <<2>>, <<0, 1>>, <<0, 2>>, <<1, 2>>, <<0, 1, 2>> >>
PatternSet == {AllPatterns[a] : a \in 1..Len(AllPatterns)}

\* built once at construction of a projection: per operator its state-changing
\* transitions, and the goal states
TransitionTable == [pattern \in PatternSet |-> [o \in Ops |-> StateChanging(pattern, o)]]
goal_states == [pattern \in PatternSet |->
                    {i \in AbstractStates(pattern) : is_goal_state(pattern, i)}]

\* one round of relaxations of the backward shortest-path computation:
\* d[pred] <- min(d[pred], d[succ] + c[o]), operators of cost INF skipped
RelaxOnce(trans, c, d) ==
    [j \in DOMAIN d |->
        LET cand == UNION {{Add(d[t[2]], c[o]) :
                                t \in {u \in trans[o] : u[1] = j /\ d[u[2]] # INF}} :
                            o \in {p \in Ops : c[p] # INF}}
        IN  IF cand = {} THEN d[j] ELSE Min(d[j], SetMin(cand))]

\* relax until nothing changes (at most `rounds` more rounds)
RECURSIVE Relax(_, _, _, _)
Relax(trans, c, d, rounds) ==
    LET next == RelaxOnce(trans, c, d)
    IN  IF rounds = 0 \/ next = d THEN d ELSE Relax(trans, c, next, rounds - 1)

\* mutant: the distance table starts at 0 in state 0 whether or not it is a goal
compute_distances_zero_start(pattern, c) ==
    Relax(TransitionTable[pattern], c,
          [i \in AbstractStates(pattern) |->
              IF i = 0 \/ i \in goal_states[pattern] THEN 0 ELSE INF],
          num_states(pattern))

\* distances[i]: cheapest abstract path from i to a goal state, INF if none;
\* d[i] = 0 for the goal states and INF elsewhere to start with
compute_distances(pattern, c) ==
    Relax(TransitionTable[pattern], c,
          [i \in AbstractStates(pattern) |-> IF i \in goal_states[pattern] THEN 0 ELSE INF],
          num_states(pattern))

compute_h_values(pattern, c) == compute_distances(pattern, c)

\* sat[o]: the maximum of d[pred] - d[succ] over the state-changing pairs of o;
\* 0 if o has no such pair or d is INF everywhere; a pair with d[pred] = INF is
\* ignored (-INF if every pair is); INF if some pair leads from a finite
\* distance to an infinite one
compute_saturated_costs(pattern, d) ==
    [o \in Ops |->
        LET pairs == TransitionTable[pattern][o]
            live  == {t \in pairs : d[t[1]] # INF}
        IN  IF pairs = {} THEN 0
            ELSE IF \A i \in DOMAIN d : d[i] = INF THEN 0
            ELSE IF \E t \in live : d[t[2]] = INF THEN INF
            ELSE IF live = {} THEN -INF
            ELSE SetMax({d[t[1]] - d[t[2]] : t \in live})]

\* mutant: plain subtraction, neither clamped nor absorbing
reduce_costs_plain(remaining, saturated) ==
    [o \in DOMAIN remaining |-> remaining[o] - saturated[o]]

\* remaining[o] <- remaining[o] - sat[o], the saturated cost clamped to
\* [0, remaining[o]]; INF is absorbing
reduce_costs(remaining, saturated) ==
    [o \in DOMAIN remaining |->
        IF remaining[o] = INF THEN INF
        ELSE Max(0, remaining[o] - Max(0, saturated[o]))]

-----------------------------------------------------------------------------
(* Cost-partitioning core: one run over an order of abstractions.  The      *)
(* abstractions are the projections onto the non-empty patterns; the order  *)
(* is chosen step by step.                                                  *)

CostValues == (0..MaxCost) \cup {INF}

NoAbstraction == [pattern |-> <<>>, before |-> <<>>, d |-> <<>>, sat |-> <<>>]

InTuple(seq, x) == \E i \in 1..Len(seq) : seq[i] = x

\* what the observer records of a call
NoCall == [call |-> "none", state |-> -1, result |-> NO_VALUE, dead_end |-> FALSE,
           improving |-> FALSE, scp |-> FALSE, second_pass |-> FALSE, lookups |-> 0,
           max_h |-> 0, h |-> 0, checked |-> FALSE, novel |-> FALSE,
           stopped |-> FALSE]

\* the online heuristic is not constructed
OnlineIdle ==
    /\ interval = 1
    /\ use_evaluated_state_as_sample = FALSE
    /\ saturator = "ONE_SHOT"
    /\ max_optimization_time = 0
    /\ max_orders = INF
    /\ abstractions = <<>>
    /\ abstraction_functions = <<>>
    /\ cp_heuristics = <<>>
    /\ improve_heuristic = FALSE
    /\ size_kb = 0
    /\ num_evaluated_states = 0
    /\ num_scps_computed = 0
    /\ seen_facts = {}
    /\ seen_fact_pairs = {}
    /\ heuristic_cache = <<>>
    /\ timer = [elapsed |-> 0, running |-> FALSE]
    /\ aborted = FALSE
    /\ generated = {}
    /\ protocol = "start"
    /\ novelty_log = <<>>
    /\ num_queries = 0
    /\ value_queries = 0
    /\ last = NoCall

\* what the observer records of a call of the landmark-count heuristic
NoLandmarkCall == [call |-> "none", state |-> InitialState, dead_end |-> FALSE, h |-> 0,
                   result |-> NO_VALUE, status_updated |-> FALSE, preferred |-> {}]

\* no landmark-count heuristic is constructed and the process runs
\* no projection is constructed on its own
NoProjection == [pattern |-> <<>>, num_states |-> 0, hash_multipliers |-> <<>>,
                 abstract_operators |-> {}]
ProjectionIdle ==
    /\ projection = NoProjection
    /\ hash_lookups = <<>>

LandmarkIdle ==
    /\ exit_code = "none"
    /\ admissible = FALSE
    /\ use_preferred_operators = FALSE
    /\ cost_partitioning = "SUBOPTIMAL"
    /\ reasonable_orders = FALSE
    /\ conditional_effects_supported = FALSE
    /\ task_has_axioms = FALSE
    /\ task_has_conditional_effects = FALSE
    /\ lm_cost_assignment = "unset"
    /\ dead_ends_reliable = FALSE
    /\ lm_last = NoLandmarkCall

\* what the observer records of a loop iteration of select_systematic_patterns
NoIteration == [step |-> "none", pattern |-> <<>>, before |-> <<>>, saturated_costs |-> <<>>]

\* get_variable_domains(task_proxy)
get_variable_domains == [var \in 1..NumVars |-> Dom(var - 1)]

\* generate is not running
DriverIdle ==
    /\ saturate = FALSE
    /\ ignore_useless_patterns = FALSE
    /\ dead_end_treatment = "IGNORE"
    /\ max_patterns = INF
    /\ max_pdb_size = INF
    /\ max_collection_size = INF
    /\ pattern_order = "ORIGINAL"
    /\ domains = get_variable_domains
    /\ default_order_type = "ORIGINAL"
    /\ current_order_type = "NONE"
    /\ cached_pattern_size = 0
    /\ orders = <<>>
    /\ projections = <<>>
    /\ pattern_set = {}
    /\ used_var_pairs = {}
    /\ collection_size = 0
    /\ num_pattern_evaluations = 0
    /\ limit_reached = FALSE
    /\ num_patterns_before = 0
    /\ select_costs = <<>>
    /\ pattern_id = -1
    /\ driver_pc = "idle"
    /\ select_last = NoIteration

CPInit ==
    /\ costs \in [Ops -> CostValues]
    /\ cp_order = <<>>
    /\ remaining_costs = costs
    /\ cp_last = NoAbstraction
    /\ OnlineIdle
    /\ DriverIdle
    /\ LandmarkIdle
    /\ ProjectionIdle

\* process the next abstraction of the order: distances under the remaining
\* costs, saturated costs, subtraction
SaturateNext(a) ==
    /\ Len(cp_order) < MaxOrderLen
    /\ ~InTuple(cp_order, a)
    /\ LET pattern == AllPatterns[a]
           d       == compute_distances(pattern, remaining_costs)
           sat     == compute_saturated_costs(pattern, d)
       IN  /\ remaining_costs' = reduce_costs(remaining_costs, sat)
           /\ cp_last' = [pattern |-> pattern, before |-> remaining_costs,
                          d |-> d, sat |-> sat]
    /\ cp_order' = Append(cp_order, a)
    /\ UNCHANGED <<costs, landmarkVars, projectionVars, onlineVars, driverVars>>

CPNext == \E a \in 1..Len(AllPatterns) : SaturateNext(a)

SpecCP == CPInit /\ [][CPNext]_vars

-----------------------------------------------------------------------------
(* Filtered systematic pattern-collection driver: generate runs restarts;  *)
(* a restart walks the patterns of the sequential generator by increasing   *)
(* pattern id and selects the patterns that pass the filters.               *)

\* option max_pattern_size
max_pattern_size == 3

\* the values the options max_pdb_size and max_collection_size are drawn from
PdbSizeLimits == {4, 8}
CollectionSizeLimits == {6, INF}
PatternOrders == {"ORIGINAL", "REVERSE"}
DeadEndTreatments == {"IGNORE", "ALL"}

\* the loop of get_pdb_size over the first n variables of the pattern: -1 as
\* soon as the product is not within the limit of int
RECURSIVE pdb_size_loop(_, _)
pdb_size_loop(pattern, n) ==
    IF n = 0 THEN 1
    ELSE LET size == pdb_size_loop(pattern, n - 1)
         IN  IF size = -1 \/ size > INF \div domains[pattern[n] + 1]
             THEN -1
             ELSE size * domains[pattern[n] + 1]

\* product of the domain sizes, -1 if it exceeds the int range
get_pdb_size(pattern) == pdb_size_loop(pattern, Len(pattern))

relevant_operators_per_variable(var) == {o \in Ops : \E f \in Eff(o) : f[1] = var}

contains_positive_finite_value(values) ==
    \E i \in DOMAIN values : values[i] > 0 /\ values[i] # INF

\* mutant: the test looks at the operator costs of the task
only_free_operators_of_task_affect_pdb(pattern, c) ==
    \A i \in 1..Len(pattern) :
        \A op \in relevant_operators_per_variable(pattern[i]) :
            ~(costs[op] > 0 /\ costs[op] # INF)

only_free_operators_affect_pdb(pattern, c) ==
    \A i \in 1..Len(pattern) :
        \A op \in relevant_operators_per_variable(pattern[i]) :
            ~(c[op] > 0 /\ c[op] # INF)

\* the condition on the projection's goal distances that the driver asserts
\* of the pattern evaluator's verdict, for the treatments IGNORE and ALL
asserted_verdict(treatment, goal_distances) ==
    IF treatment = "IGNORE"
    THEN contains_positive_finite_value(goal_distances)
    ELSE \E i \in DOMAIN goal_distances : goal_distances[i] > 0

\* the pattern evaluator relaxes the predecessors of the settled state i:
\* d[j] <- min(d[j], d[i] + c[o]), operators of cost INF skipped
relax_predecessors(trans, c, d, i) ==
    [j \in DOMAIN d |->
        LET cand == {Add(d[i], c[o]) : o \in {p \in Ops : c[p] # INF /\ <<j, i>> \in trans[p]}}
        IN  IF cand = {} THEN d[j] ELSE Min(d[j], SetMin(cand))]

\* mutant: the evaluator answers as soon as it reaches a state at a positive
\* finite tentative distance
RECURSIVE dijkstra_until_reached(_, _, _, _)
dijkstra_until_reached(trans, c, d, settled) ==
    LET open == {i \in DOMAIN d : i \notin settled /\ d[i] # INF}
        di   == SetMin({d[i] : i \in open})
        i    == SetMin({j \in open : d[j] = di})
    IN  IF \E j \in DOMAIN d : d[j] > 0 /\ d[j] # INF THEN [useful |-> TRUE, d |-> d]
        ELSE IF open = {} THEN [useful |-> FALSE, d |-> d]
        ELSE dijkstra_until_reached(trans, c, relax_predecessors(trans, c, d, i),
                                    settled \cup {i})

\* the evaluator's Dijkstra search from the goal states: states are settled by
\* (d, index); it stops at the first settled state with 0 < d < INF
RECURSIVE dijkstra_until_useful(_, _, _, _)
dijkstra_until_useful(trans, c, d, settled) ==
    LET open == {i \in DOMAIN d : i \notin settled /\ d[i] # INF}
        di   == SetMin({d[i] : i \in open})
        i    == SetMin({j \in open : d[j] = di})
    IN  IF open = {} THEN [useful |-> FALSE, d |-> d]
        ELSE IF di > 0 THEN [useful |-> TRUE, d |-> d]
        ELSE dijkstra_until_useful(trans, c, relax_predecessors(trans, c, d, i),
                                   settled \cup {i})

\* the search of PatternEvaluator::is_useful
evaluator_search(pattern, c) ==
    dijkstra_until_useful(TransitionTable[pattern], c,
                          [i \in AbstractStates(pattern) |->
                              IF i \in goal_states[pattern] THEN 0 ELSE INF],
                          {})

\* mutant: states without a path to a goal state never make a pattern useful
is_useful_ignoring_dead_ends(pattern, treatment, c) ==
    evaluator_search(pattern, c).useful

\* PatternEvaluator::is_useful for the treatments IGNORE and ALL: a state with
\* 0 < d < INF was settled or, under ALL, a state is left without a path to a
\* goal state when the search ends
is_useful(pattern, treatment, c) ==
    \/ evaluator_search(pattern, c).useful
    \/ /\ treatment = "ALL"
       /\ \E i \in AbstractStates(pattern) : evaluator_search(pattern, c).d[i] = INF

\* the systematic generator's interesting patterns: in this task every two
\* variables are causally linked, so these are the patterns with a goal variable
GoalVars == {f[1] : f \in Goal}
interesting(pattern) == \E i \in 1..Len(pattern) : pattern[i] \in GoalVars

\* mutant: the patterns the systematic generator hands over are all kept
get_patterns_up_to_size(pattern_size) ==
    SelectSeq(AllPatterns, LAMBDA p : Len(p) <= pattern_size /\ interesting(p))

\* the interesting patterns of exactly this size, in generation order
get_patterns(pattern_size) ==
    SelectSeq(AllPatterns, LAMBDA p : Len(p) = pattern_size /\ interesting(p))

Reverse(seq) == [i \in 1..Len(seq) |-> seq[Len(seq) + 1 - i]]

\* every value of the option `order`
AllPatternOrders ==
    {"ORIGINAL", "REVERSE", "RANDOM", "PDB_SIZE_UP", "PDB_SIZE_DOWN",
     "CG_SUM_UP", "CG_SUM_DOWN", "CG_MIN_UP", "CG_MIN_DOWN", "CG_MAX_UP", "CG_MAX_DOWN",
     "NEW_VAR_PAIRS_UP", "NEW_VAR_PAIRS_DOWN", "ACTIVE_OPS_UP", "ACTIVE_OPS_DOWN",
     "ALT_TWO", "ACTIVE_OPS_UP_CG_MIN_DOWN", "CG_MIN_DOWN_ACTIVE_OPS_UP"}

\* the order types whose sorted order is reversed
DownOrders ==
    {"PDB_SIZE_DOWN", "CG_SUM_DOWN", "CG_MIN_DOWN", "CG_MAX_DOWN", "NEW_VAR_PAIRS_DOWN",
     "ACTIVE_OPS_DOWN"}

\* the order types restart recomputes the cached orders for
RestartOrders == {"RANDOM", "NEW_VAR_PAIRS_UP", "NEW_VAR_PAIRS_DOWN", "ALT_TWO"}

RECURSIVE get_sum(_)
get_sum(pattern) ==
    IF pattern = <<>> THEN 0 ELSE Head(pattern) + get_sum(Tail(pattern))

get_min(pattern) ==
    IF pattern = <<>> THEN INF ELSE SetMin({pattern[i] : i \in 1..Len(pattern)})

get_max(pattern) ==
    IF pattern = <<>> THEN -1 ELSE SetMax({pattern[i] : i \in 1..Len(pattern)})

\* used is the set of entries <<var1, var2>> of the matrix that are set
get_num_new_var_pairs(pattern, used) ==
    Cardinality({ij \in (1..Len(pattern)) \X (1..Len(pattern)) :
                    ij[1] < ij[2] /\ <<pattern[ij[1]], pattern[ij[2]]>> \notin used})

\* TaskInfo::operator_affects_pattern: the operator has an effect on a variable
\* of the pattern
operator_affects_pattern(pattern, op_id) ==
    \E i \in 1..Len(pattern) : op_id \in relevant_operators_per_variable(pattern[i])

get_num_active_ops(pattern) ==
    Cardinality({op_id \in Ops : operator_affects_pattern(pattern, op_id)})

compute_score(pattern, order_type, used) ==
    IF order_type \in {"PDB_SIZE_UP", "PDB_SIZE_DOWN"} THEN get_pdb_size(pattern)
    ELSE IF order_type \in {"CG_SUM_UP", "CG_SUM_DOWN"} THEN get_sum(pattern)
    ELSE IF order_type \in {"CG_MIN_UP", "CG_MIN_DOWN"} THEN get_min(pattern)
    ELSE IF order_type \in {"CG_MAX_UP", "CG_MAX_DOWN"} THEN get_max(pattern)
    ELSE IF order_type \in {"NEW_VAR_PAIRS_UP", "NEW_VAR_PAIRS_DOWN"}
         THEN get_num_new_var_pairs(pattern, used)
    ELSE get_num_active_ops(pattern)

\* what the comparator of the sort compares: the pair of the composite order
\* types, the score (with a second component that never decides) otherwise
sort_key(pattern, order_type, used) ==
    IF order_type = "ACTIVE_OPS_UP_CG_MIN_DOWN"
    THEN <<compute_score(pattern, "ACTIVE_OPS_UP", used),
           -compute_score(pattern, "CG_MIN_DOWN", used)>>
    ELSE IF order_type = "CG_MIN_DOWN_ACTIVE_OPS_UP"
    THEN <<-compute_score(pattern, "CG_MIN_DOWN", used),
           compute_score(pattern, "ACTIVE_OPS_UP", used)>>
    ELSE <<compute_score(pattern, order_type, used), 0>>

\* operator< of pairs
PairLess(a, b) == a[1] < b[1] \/ (a[1] = b[1] /\ a[2] < b[2])

\* rng.shuffle: the outcome is the permutation `shuffle` of the positions
Shuffled(order, shuffle) == [i \in 1..Len(order) |-> order[shuffle[i]]]

\* the sort of an order by the keys.  std::sort leaves the order of equal
\* elements open; here they keep the order they come in, and the shuffle before
\* the sort brings them in every order
sort_insert_at(x, rest, n) ==
    SubSeq(rest, 1, n) \o <<x>> \o SubSeq(rest, n + 1, Len(rest))

sort_insert(x, rest, order_type, used) ==
    sort_insert_at(x, rest,
        Cardinality({i \in 1..Len(rest) :
                        PairLess(sort_key(rest[i], order_type, used),
                                 sort_key(x, order_type, used))}))

RECURSIVE sort(_, _, _)
sort(order, order_type, used) ==
    IF order = <<>> THEN <<>>
    ELSE sort_insert(Head(order), sort(Tail(order), order_type, used), order_type, used)

\* mutant: the DOWN order types are not reversed after the sort
compute_pattern_order_never_reversed(order, order_type, used, shuffle) ==
    IF order_type = "ORIGINAL" THEN order
    ELSE IF order_type = "REVERSE" THEN Reverse(order)
    ELSE IF order_type = "RANDOM" THEN Shuffled(order, shuffle)
    ELSE sort(Shuffled(order, shuffle), order_type, used)

\* the order of a bucket: `order` is the order so far (the insertion order for
\* a freshly materialised bucket)
compute_pattern_order(order, order_type, used, shuffle) ==
    IF order_type = "ORIGINAL" THEN order
    ELSE IF order_type = "REVERSE" THEN Reverse(order)
    ELSE IF order_type = "RANDOM" THEN Shuffled(order, shuffle)
    ELSE IF order_type \in DownOrders
    THEN Reverse(sort(Shuffled(order, shuffle), order_type, used))
    ELSE sort(Shuffled(order, shuffle), order_type, used)

\* the outcomes of rng(2) that get_order_type can see
Coins(order_type) == IF order_type = "ALT_TWO" THEN {0, 1} ELSE {0}

get_order_type(order_type, coin) ==
    IF order_type = "ALT_TWO"
    THEN IF coin = 0 THEN "CG_MIN_DOWN" ELSE "ACTIVE_OPS_UP"
    ELSE order_type

\* the outcomes of the shuffles of the buckets: per pattern size 1, 2, 3 a
\* permutation of the positions of its bucket
Shuffles ==
    {<<a, b, c>> : a \in AllOrders(Len(get_patterns(1))),
                   b \in AllOrders(Len(get_patterns(2))),
                   c \in AllOrders(Len(get_patterns(3)))}
NoShuffle == [k \in 1..NumVars |-> [i \in 1..Len(get_patterns(k)) |-> i]]
Rngs(order_type) ==
    IF order_type \in {"ORIGINAL", "REVERSE"} THEN {NoShuffle} ELSE Shuffles

RECURSIVE Concat(_, _)
Concat(seqs, n) == IF n = 0 THEN <<>> ELSE Concat(seqs, n - 1) \o seqs[n]

num_generated_patterns(ords) == Len(Concat(ords, Len(ords)))

\* mutant: the next bucket is materialised at every call that can
RECURSIVE get_pattern_eager(_, _, _, _, _, _, _)
get_pattern_eager(id, cached, ords, order_type, used, rng, timer_expired) ==
    IF cached < Min(max_pattern_size, NumVars) /\ ~timer_expired
    THEN get_pattern_eager(id, cached + 1,
             Append(ords, compute_pattern_order(get_patterns(cached + 1), order_type,
                                                used, rng[cached + 1])),
             order_type, used, rng, timer_expired)
    ELSE IF id < num_generated_patterns(ords)
    THEN [pattern |-> Concat(ords, Len(ords))[id + 1],
          cached_pattern_size |-> cached, orders |-> ords]
    ELSE [pattern |-> <<>>, cached_pattern_size |-> cached, orders |-> ords]

\* mutant: an expired timer leaves the part of the bucket generated so far
get_pattern_keeping_partial_bucket(id, cached, ords, order_type, used, rng, timer_expired) ==
    IF id < num_generated_patterns(ords)
    THEN [pattern |-> Concat(ords, Len(ords))[id + 1],
          cached_pattern_size |-> cached, orders |-> ords]
    ELSE IF cached < Min(max_pattern_size, NumVars)
    THEN LET bucket == compute_pattern_order(get_patterns(cached + 1), order_type,
                                             used, rng[cached + 1])
             stored == Append(ords, IF timer_expired THEN SubSeq(bucket, 1, 1) ELSE bucket)
         IN  [pattern |-> IF ~timer_expired /\ id < num_generated_patterns(stored)
                          THEN Concat(stored, Len(stored))[id + 1]
                          ELSE <<>>,
              cached_pattern_size |-> cached + 1, orders |-> stored]
    ELSE [pattern |-> <<>>, cached_pattern_size |-> cached, orders |-> ords]

\* the pattern with this id; materialises further size buckets, ordered by
\* order_type (the generator's default_order_type), while the id is beyond what
\* is cached, the size limit allows it and the timer has not expired; the
\* empty pattern otherwise
RECURSIVE get_pattern(_, _, _, _, _, _, _)
get_pattern(id, cached, ords, order_type, used, rng, timer_expired) ==
    IF id < num_generated_patterns(ords)
    THEN [pattern |-> Concat(ords, Len(ords))[id + 1],
          cached_pattern_size |-> cached, orders |-> ords]
    ELSE IF cached < Min(max_pattern_size, NumVars) /\ ~timer_expired
    THEN get_pattern(id, cached + 1,
             Append(ords, compute_pattern_order(get_patterns(cached + 1), order_type,
                                                used, rng[cached + 1])),
             order_type, used, rng, timer_expired)
    ELSE [pattern |-> <<>>, cached_pattern_size |-> cached, orders |-> ords]

\* mutant: restart fills every order with its first entry
restart_repeating_first_entry(ords, order_type, current, used, rng) ==
    [k \in 1..Len(ords) |-> [i \in 1..Len(ords[k]) |-> ords[k][1]]]

\* mutant: restart recomputes the cached orders for every order type
restart_every_order_type(ords, order_type, current, used, rng) ==
    [k \in 1..Len(ords) |-> compute_pattern_order(ords[k], current, used, rng[k])]

\* SequentialPatternGenerator::restart: `current` is the order type drawn
restart(ords, order_type, current, used, rng) ==
    IF order_type \in RestartOrders
    THEN [k \in 1..Len(ords) |-> compute_pattern_order(ords[k], current, used, rng[k])]
    ELSE ords

\* the shuffle outcomes a call can see: get_pattern shuffles only when it
\* materialises a bucket, restart only for the order types it recomputes
GetPatternRngs(id) ==
    IF id < num_generated_patterns(orders) THEN {NoShuffle} ELSE Rngs(pattern_order)
RestartRngs ==
    IF pattern_order \in RestartOrders THEN Rngs(pattern_order) ELSE {NoShuffle}

\* when the restart timer is found expired: not at all, already while the
\* generator materialises patterns, or only at the check after get_pattern
Expiries == {"no", "in_get_patterns", "after_get_pattern"}

\* the cost vectors of the tasks the driver is run on: op0, op1 and op2 take
\* every cost value, op3 and op4 cost MaxCost
DriverCosts == {c \in [Ops -> CostValues] : \A o \in {3, 4} : c[o] = MaxCost}

\* generate up to its restart loop: options drawn from their ranges, empty
\* collection, no variable pair used
DriverStart(order_types, domain_sizes) ==
    /\ costs \in DriverCosts
    /\ cp_order = <<>>
    /\ remaining_costs = costs
    /\ cp_last = NoAbstraction
    /\ OnlineIdle
    /\ saturate \in BOOLEAN
    /\ ignore_useless_patterns \in BOOLEAN
    /\ dead_end_treatment \in DeadEndTreatments
    /\ max_patterns \in 1..MaxPatterns
    /\ max_pdb_size \in PdbSizeLimits
    /\ max_collection_size \in CollectionSizeLimits
    /\ pattern_order \in order_types
    /\ domains \in domain_sizes
    /\ default_order_type \in {get_order_type(pattern_order, coin) :
                                  coin \in Coins(pattern_order)}
    /\ current_order_type = "NONE"
    /\ cached_pattern_size = 0
    /\ orders = <<>>
    /\ projections = <<>>
    /\ pattern_set = {}
    /\ used_var_pairs = {}
    /\ collection_size = 0
    /\ num_pattern_evaluations = 0
    /\ limit_reached = FALSE
    /\ num_patterns_before = 0
    /\ select_costs = <<>>
    /\ pattern_id = -1
    /\ driver_pc = "generate"
    /\ select_last = NoIteration
    /\ LandmarkIdle
    /\ ProjectionIdle

DriverInit == DriverStart(PatternOrders, {get_variable_domains})

\* mutant: a later restart goes on with the costs the one before left
get_operator_costs_left(previous) == IF previous = <<>> THEN costs ELSE previous

\* the local cost vector of select_systematic_patterns, whatever the call
\* before left: the operator costs of the task
get_operator_costs(previous) == costs

\* generate: the head of a pass of the restart loop (the generator's restart)
\* and the entry of select_systematic_patterns
Restart(coin, rng) ==
    /\ driver_pc = "generate"
    /\ ~limit_reached
    /\ current_order_type' = get_order_type(pattern_order, coin)
    /\ orders' = restart(orders, pattern_order, get_order_type(pattern_order, coin),
                         used_var_pairs, rng)
    /\ num_patterns_before' = Len(projections)
    /\ select_costs' = get_operator_costs(select_costs)
    /\ pattern_id' = -1
    /\ driver_pc' = "select"
    /\ select_last' = NoIteration
    /\ UNCHANGED <<costs, landmarkVars, projectionVars, cpVars, onlineVars, driverOptionVars, default_order_type,
                   cached_pattern_size, projections, pattern_set, used_var_pairs, collection_size,
                   num_pattern_evaluations, limit_reached>>

\* mutant: no pattern counts as selected before
pattern_set_count_zero(selected, pattern) == 0

\* pattern_set.count(pattern)
pattern_set_count(selected, pattern) == IF pattern \in selected THEN 1 ELSE 0

\* mutant: the limit is noticed one projection late
max_patterns_exceeded(num_projections) == num_projections > max_patterns

\* the test of the limit on the number of projections
max_patterns_reached(num_projections) == num_projections = max_patterns

\* get_pattern has to materialise a further size bucket for this id
materialises_bucket(id) ==
    /\ id >= num_generated_patterns(orders)
    /\ cached_pattern_size < Min(max_pattern_size, NumVars)

\* how a pass that finds the restart timer expired is recorded: apart, when
\* the timer expired while get_patterns was generating a bucket
expired_step(id, expiry) ==
    IF expiry = "in_get_patterns" /\ materialises_bucket(id)
    THEN "expired_in_get_patterns"
    ELSE "expired"

\* one pass of the loop of select_systematic_patterns
SelectIteration(expiry, rng) ==
    /\ driver_pc = "select"
    /\ LET id              == pattern_id + 1
           got             == get_pattern(id, cached_pattern_size, orders,
                                          default_order_type, used_var_pairs, rng,
                                          expiry = "in_get_patterns")
           pattern         == got.pattern
           pdb_size        == get_pdb_size(pattern)
           select_pattern  == IF saturate
                              THEN is_useful(pattern, dead_end_treatment, select_costs)
                              ELSE TRUE
           goal_distances  == compute_distances(pattern, select_costs)
           saturated_costs == compute_saturated_costs(pattern, goal_distances)
           Record(step, sat) == select_last' = [step |-> step, pattern |-> pattern,
                                                before |-> select_costs,
                                                saturated_costs |-> sat]
           Return(step, limit) ==
               /\ driver_pc' = "returned"
               /\ limit_reached' = limit
               /\ Record(step, <<>>)
               /\ UNCHANGED <<projections, pattern_set, used_var_pairs, collection_size,
                              num_pattern_evaluations, select_costs>>
           Continue(step) ==
               /\ driver_pc' = "select"
               /\ Record(step, <<>>)
               /\ UNCHANGED <<projections, pattern_set, used_var_pairs, collection_size,
                              num_pattern_evaluations, select_costs, limit_reached>>
       IN  /\ pattern_id' = id
           /\ cached_pattern_size' = got.cached_pattern_size
           /\ orders' = got.orders
           /\ IF expiry # "no" THEN Return(expired_step(id, expiry), FALSE)
              ELSE IF pattern = <<>> THEN Return("exhausted", FALSE)
              ELSE IF pattern_set_count(pattern_set, pattern) # 0 THEN Continue("duplicate")
              ELSE IF pdb_size = -1 \/ pdb_size > max_pdb_size THEN Continue("too_large")
              ELSE IF max_patterns_reached(Len(projections))
                   THEN Return("max_patterns", TRUE)
              ELSE IF /\ max_collection_size # INF
                      /\ pdb_size > max_collection_size - collection_size
                   THEN Return("max_collection_size", TRUE)
              ELSE IF /\ ignore_useless_patterns
                      /\ only_free_operators_affect_pdb(pattern, select_costs)
                   THEN Continue("free_operators")
              ELSE /\ num_pattern_evaluations' = num_pattern_evaluations + 1
                   /\ driver_pc' = "select"
                   /\ UNCHANGED limit_reached
                   /\ IF select_pattern
                      THEN /\ IF saturate
                              THEN /\ select_costs' = reduce_costs(select_costs, saturated_costs)
                                   /\ Record("selected", saturated_costs)
                              ELSE /\ UNCHANGED select_costs
                                   /\ Record("selected", <<>>)
                           /\ projections' = Append(projections, pattern)
                           /\ pattern_set' = pattern_set \cup {pattern}
                           /\ used_var_pairs' = used_var_pairs \cup
                                  {<<pattern[i], pattern[j]>> : i, j \in 1..Len(pattern)}
                           /\ collection_size' = collection_size + pdb_size
                      ELSE /\ Record("rejected", <<>>)
                           /\ UNCHANGED <<projections, pattern_set, used_var_pairs,
                                          collection_size, select_costs>>
    /\ UNCHANGED <<costs, landmarkVars, projectionVars, cpVars, onlineVars, driverOptionVars, default_order_type,
                   current_order_type, num_patterns_before>>

\* mutant: a restart that added no pattern does not end generate
no_pattern_added_ignored(num_patterns_after) == FALSE

\* the test "Restart did not add any pattern"
no_pattern_added(num_patterns_after) == num_patterns_after = num_patterns_before

\* generate: the tail of a pass of the restart loop, after
\* select_systematic_patterns returned
FinishRestart(overall_expired) ==
    /\ driver_pc = "returned"
    /\ driver_pc' = IF no_pattern_added(Len(projections)) THEN "done"
                    ELSE IF overall_expired THEN "done"
                    ELSE IF limit_reached THEN "done"
                    ELSE "generate"
    /\ UNCHANGED <<costs, landmarkVars, projectionVars, cpVars, onlineVars, driverOptionVars, default_order_type,
                   current_order_type, cached_pattern_size, orders,
                   projections, pattern_set, used_var_pairs, collection_size,
                   num_pattern_evaluations, limit_reached, num_patterns_before,
                   select_costs, pattern_id, select_last>>

\* the cost-partitioning core run over the projections generate returned
SaturateCollectionNext(a) ==
    /\ driver_pc = "done"
    /\ AllPatterns[a] \in pattern_set
    /\ SaturateNext(a)

DriverNext ==
    \/ \E coin \in Coins(pattern_order), rng \in RestartRngs : Restart(coin, rng)
    \/ \E expiry \in Expiries, rng \in GetPatternRngs(pattern_id + 1) :
           SelectIteration(expiry, rng)
    \/ \E overall_expired \in BOOLEAN : FinishRestart(overall_expired)
    \/ \E a \in 1..Len(AllPatterns) : SaturateCollectionNext(a)

SpecDriver == DriverInit /\ [][DriverNext]_vars

\* generate on tasks in which two variables have 2^16 values, of which the
\* operators, the initial state and the goal mention the first two: the
\* product of their domain sizes exceeds the int range
LargeDomain == 65536
OverflowDomains == {<<LargeDomain, LargeDomain, 2>>, <<2, LargeDomain, LargeDomain>>}
OverflowInit ==
    /\ DriverStart({"PDB_SIZE_UP", "PDB_SIZE_DOWN"}, OverflowDomains)
    /\ costs \in {[o \in Ops |-> MaxCost], [o \in Ops |-> IF o < 3 THEN 0 ELSE MaxCost]}
SpecOverflow == OverflowInit /\ [][DriverNext]_vars

\* where generate stands
position == <<driver_pc, pattern_id>>

\* the control flow of generate: the head of a pass of the restart loop enters
\* select_systematic_patterns, a pass of its loop increments pattern_id and
\* goes on or returns, the tail of the pass goes on or leaves the restart loop
GenerateStep ==
    \/ /\ driver_pc = "generate"
       /\ ~limit_reached
       /\ driver_pc' = "select"
       /\ pattern_id' = -1
    \/ /\ driver_pc = "select"
       /\ driver_pc' \in {"select", "returned"}
       /\ pattern_id' = pattern_id + 1
    \/ /\ driver_pc = "returned"
       /\ driver_pc' \in {"generate", "done"}
       /\ pattern_id' = pattern_id

\* generate is a sequential program: it takes its next step whenever it has one
SpecDriverFair == SpecDriver /\ WF_position(GenerateStep)

-----------------------------------------------------------------------------
(* The pattern evaluator on its own: select_systematic_patterns asks it for *)
(* a verdict on a pattern under a cost vector and, in a build with          *)
(* assertions, computes the goal distances of the materialised projection.  *)

EvaluatorInit ==
    /\ costs \in [Ops -> CostValues]
    /\ cp_order = <<>>
    /\ remaining_costs = costs
    /\ cp_last = NoAbstraction
    /\ OnlineIdle
    /\ saturate = TRUE
    /\ ignore_useless_patterns = FALSE
    /\ dead_end_treatment \in DeadEndTreatments
    /\ max_patterns = INF
    /\ max_pdb_size = INF
    /\ max_collection_size = INF
    /\ pattern_order = "ORIGINAL"
    /\ domains = get_variable_domains
    /\ default_order_type = "ORIGINAL"
    /\ current_order_type = "NONE"
    /\ cached_pattern_size = 0
    /\ orders = <<>>
    /\ projections = <<>>
    /\ pattern_set = {}
    /\ used_var_pairs = {}
    /\ collection_size = 0
    /\ num_pattern_evaluations = 0
    /\ limit_reached = FALSE
    /\ num_patterns_before = 0
    /\ select_costs = costs
    /\ pattern_id = -1
    /\ driver_pc = "evaluator"
    /\ select_last = NoIteration
    /\ LandmarkIdle
    /\ ProjectionIdle

\* the evaluation of one pattern: the evaluator's verdict and, next to it, the
\* goal distances of the projection under the same costs
Evaluate(pattern) ==
    /\ driver_pc = "evaluator"
    /\ select_last' = [step |-> IF is_useful(pattern, dead_end_treatment, select_costs)
                                 THEN "selected" ELSE "rejected",
                        pattern |-> pattern,
                        before |-> select_costs,
                        saturated_costs |-> compute_distances(pattern, select_costs)]
    /\ num_pattern_evaluations' = 1
    /\ UNCHANGED <<costs, landmarkVars, projectionVars, cpVars, onlineVars, driverOptionVars, default_order_type,
                   current_order_type, cached_pattern_size, orders, projections,
                   pattern_set, used_var_pairs, collection_size, limit_reached,
                   num_patterns_before, select_costs, pattern_id, driver_pc>>

EvaluatorNext == \E a \in 1..Len(AllPatterns) : Evaluate(AllPatterns[a])

SpecEvaluator == EvaluatorInit /\ [][EvaluatorNext]_vars

-----------------------------------------------------------------------------
(* The sequential pattern generator on its own: get_pattern and restart are *)
(* called in any order, for every order type.                               *)

\* the matrix entries a selected pattern sets
VarPairs(pattern) == {<<pattern[i], pattern[j]>> : i, j \in 1..Len(pattern)}

\* the matrices the caller can pass at the next call: the one of the call
\* before, or that one after another two-variable pattern was selected; the
\* matrix is left empty for the order types that never read it
CallerVarPairs ==
    IF pattern_order \in {"NEW_VAR_PAIRS_UP", "NEW_VAR_PAIRS_DOWN"}
    THEN {used_var_pairs} \cup
         {used_var_pairs \cup VarPairs(get_patterns(2)[n]) : n \in 1..Len(get_patterns(2))}
    ELSE {used_var_pairs}

\* the constructor of SequentialPatternGenerator
GeneratorInit ==
    /\ costs = [o \in Ops |-> MaxCost]
    /\ cp_order = <<>>
    /\ remaining_costs = costs
    /\ cp_last = NoAbstraction
    /\ OnlineIdle
    /\ saturate = FALSE
    /\ ignore_useless_patterns = FALSE
    /\ dead_end_treatment = "IGNORE"
    /\ max_patterns = INF
    /\ max_pdb_size = INF
    /\ max_collection_size = INF
    /\ pattern_order \in AllPatternOrders
    /\ domains = get_variable_domains
    /\ default_order_type \in {get_order_type(pattern_order, coin) :
                                  coin \in Coins(pattern_order)}
    /\ current_order_type = "NONE"
    /\ cached_pattern_size = 0
    /\ orders = <<>>
    /\ projections = <<>>
    /\ pattern_set = {}
    /\ used_var_pairs = {}
    /\ collection_size = 0
    /\ num_pattern_evaluations = 0
    /\ limit_reached = FALSE
    /\ num_patterns_before = 0
    /\ select_costs = <<>>
    /\ pattern_id = -1
    /\ driver_pc = "generator"
    /\ select_last = NoIteration
    /\ LandmarkIdle
    /\ ProjectionIdle

\* what a call of get_pattern leaves
GotPattern(id, got, step) ==
    /\ pattern_id' = id
    /\ cached_pattern_size' = got.cached_pattern_size
    /\ orders' = got.orders
    /\ select_last' = [NoIteration EXCEPT !.step = step, !.pattern = got.pattern]

GetPattern(id, used, rng, timer_expired) ==
    /\ driver_pc = "generator"
    /\ GotPattern(id,
                  get_pattern(id, cached_pattern_size, orders, default_order_type, used,
                              rng, timer_expired),
                  IF timer_expired THEN "get_pattern_expired" ELSE "get_pattern")
    /\ used_var_pairs' = used
    /\ UNCHANGED <<costs, landmarkVars, projectionVars, cpVars, onlineVars, driverOptionVars, default_order_type,
                   current_order_type, projections, pattern_set, collection_size,
                   num_pattern_evaluations, limit_reached, num_patterns_before,
                   select_costs, driver_pc>>

GeneratorRestart(used, coin, rng) ==
    /\ driver_pc = "generator"
    /\ current_order_type' = get_order_type(pattern_order, coin)
    /\ orders' = restart(orders, pattern_order, get_order_type(pattern_order, coin),
                         used, rng)
    /\ used_var_pairs' = used
    /\ select_last' = [NoIteration EXCEPT !.step = "restart"]
    /\ UNCHANGED <<costs, landmarkVars, projectionVars, cpVars, onlineVars, driverOptionVars, default_order_type,
                   cached_pattern_size, projections, pattern_set, collection_size,
                   num_pattern_evaluations, limit_reached, num_patterns_before,
                   select_costs, pattern_id, driver_pc>>

GeneratorNext ==
    \/ \E id \in 0..MaxPatternId, used \in CallerVarPairs, timer_expired \in BOOLEAN :
           \E rng \in GetPatternRngs(id) : GetPattern(id, used, rng, timer_expired)
    \/ \E used \in CallerVarPairs, coin \in Coins(pattern_order), rng \in RestartRngs :
           GeneratorRestart(used, coin, rng)

SpecGenerator == GeneratorInit /\ [][GeneratorNext]_vars

-----------------------------------------------------------------------------
(* Online SCP heuristic: abstractions, cost partitionings, unsolvability    *)

\* the projections handed to the constructor
OnlinePatterns == << <<1>>, <<0, 1>> >>
NumAbstractions == Len(OnlinePatterns)

Intervals == {-2, -1, 0} \cup (1..MaxInterval)
Saturators == {"ONE_SHOT", "PERIMSTAR"}
\* options max_time (in timer ticks) and max_size (in the units of
\* estimate_size_in_kb)
max_time == 2
max_size_kb == 4

\* abstract state of `state` in every abstraction; -1 where the abstraction
\* function was not extracted
get_abstract_state_ids(abstrs, state) ==
    [a \in 1..Len(abstrs) |->
        IF abstrs[a] = <<>> THEN -1 ELSE get_abstract_state_id(abstrs[a], state)]

UnitCosts == [o \in Ops |-> 1]

\* unsolvability oracle: per abstraction the abstract states of infinite
\* distance under unit costs
unit_cost_distances ==
    [a \in 1..NumAbstractions |-> compute_distances(OnlinePatterns[a], UnitCosts)]
infeasible == [a \in 1..NumAbstractions |->
                {i \in AbstractStates(OnlinePatterns[a]) : unit_cost_distances[a][i] = INF}]

is_unsolvable(abstract_state_ids) ==
    \E a \in 1..NumAbstractions : abstract_state_ids[a] \in infeasible[a]

\* the cost-partitioning core over `order`, from position k on; acc holds the
\* lookup tables recorded so far and the remaining costs.  With perim = TRUE
\* every table is cut off at the distance of the evaluated state (the
\* perimeter) before it is recorded and saturated.
\* the lookup table of an abstraction: its distance table d, with perim cut
\* off at the distance of the abstract state `id`
lookup_table(d, perim, id) ==
    IF perim THEN [i \in DOMAIN d |-> Min(d[i], d[id])] ELSE d

\* record the table h of abstraction a and subtract its saturated costs
saturate_abstraction(acc, a, pattern, h) ==
    [cph |-> Append(acc.cph, [abstraction_id |-> a, h_values |-> h]),
     remaining |-> reduce_costs(acc.remaining, compute_saturated_costs(pattern, h))]

RECURSIVE cost_partitioning_run(_, _, _, _, _, _)
cost_partitioning_run(abstrs, order, ids, perim, k, acc) ==
    IF k > Len(order) THEN acc
    ELSE cost_partitioning_run(abstrs, order, ids, perim, k + 1,
            saturate_abstraction(acc, order[k], abstrs[order[k]],
                lookup_table(compute_distances(abstrs[order[k]], acc.remaining),
                             perim, IF perim THEN ids[order[k]] ELSE 0)))

compute_saturated_cost_partitioning(abstrs, order, c, ids) ==
    cost_partitioning_run(abstrs, order, ids, FALSE, 1, [cph |-> <<>>, remaining |-> c]).cph

\* returns the heuristic and the remaining costs it leaves (the source changes
\* the cost vector passed by reference)
compute_perim_saturated_cost_partitioning_change_costs(abstrs, order, c, ids) ==
    cost_partitioning_run(abstrs, order, ids, TRUE, 1, [cph |-> <<>>, remaining |-> c])

RECURSIVE SumLookups(_, _, _)
SumLookups(cp, ids, n) ==
    IF n = 0 THEN 0
    ELSE Add(SumLookups(cp, ids, n - 1), cp[n].h_values[ids[cp[n].abstraction_id]])

\* CostPartitioningHeuristic::compute_heuristic: sum of the lookups
cph_compute_heuristic(cp, ids) == SumLookups(cp, ids, Len(cp))

\* CostPartitioningHeuristic::add: tables of the same abstraction are added
\* entry by entry, tables of other abstractions are appended
cph_add(cp, other) ==
    LET ids1 == {cp[n].abstraction_id : n \in 1..Len(cp)}
        merged == [n \in 1..Len(cp) |->
                    LET same == {m \in 1..Len(other) :
                                    other[m].abstraction_id = cp[n].abstraction_id}
                    IN  IF same = {} THEN cp[n]
                        ELSE [abstraction_id |-> cp[n].abstraction_id,
                              h_values |-> [i \in DOMAIN cp[n].h_values |->
                                  Add(cp[n].h_values[i],
                                      other[CHOOSE m \in same : TRUE].h_values[i])]]]
    IN  merged \o SelectSeq(other, LAMBDA t : t.abstraction_id \notin ids1)

estimate_size_in_kb(cp) == Len(cp)

\* maximum over the stored heuristics, 0 for an empty collection
compute_max_h_with_statistics(cps, ids) ==
    SetMax({0} \cup {cph_compute_heuristic(cps[n], ids) : n \in 1..Len(cps)})

\* cost of a cheapest plan from a state: the goal distance in the projection
\* onto all variables under the task's costs
FullPattern == AllPatterns[Len(AllPatterns)]

-----------------------------------------------------------------------------
(* Online SCP heuristic: novelty *)

RECURSIVE DomainSum(_)
DomainSum(n) == IF n = 0 THEN 0 ELSE DomainSum(n - 1) + Dom(n - 1)

fact_id_offsets == [v \in Vars |-> DomainSum(v)]
num_facts == DomainSum(NumVars)
get_fact_id(var, value) == fact_id_offsets[var] + value

\* visit_fact_pair: the entry of the pair matrix the call reads and sets
visit_fact_pair_entry(fact_id1, fact_id2) ==
    IF fact_id1 > fact_id2 THEN <<fact_id2, fact_id1>> ELSE <<fact_id1, fact_id2>>

\* facts and entries is_novel visits for a transition by op_id into state
EffectFactIds(op_id) == {get_fact_id(f[1], f[2]) : f \in Eff(op_id)}

\* mutant: the variable of the effect fact is not skipped
fact_pair_calls_every_var(op_id, state) ==
    UNION {{<<get_fact_id(f[1], f[2]), get_fact_id(var2, state[var2])>> :
                var2 \in Vars} : f \in Eff(op_id)}

\* the arguments of the calls of visit_fact_pair that is_novel makes
fact_pair_calls(op_id, state) ==
    UNION {{<<get_fact_id(f[1], f[2]), get_fact_id(var2, state[var2])>> :
                var2 \in Vars \ {f[1]}} : f \in Eff(op_id)}

\* the arguments of the calls of visit_fact_pair that notify_initial_state makes
initial_fact_pair_calls(initial_state) ==
    UNION {{<<get_fact_id(var1, initial_state[var1]), get_fact_id(var2, initial_state[var2])>> :
                var2 \in {v \in Vars : v > var1}} : var1 \in Vars}

EffectPairEntries(op_id, state) ==
    {visit_fact_pair_entry(c[1], c[2]) : c \in fact_pair_calls(op_id, state)}

\* mutant: novel is set for every effect fact, seen before or not
is_novel_always(op_id, state) ==
    IF interval = -1
    THEN [novel |-> TRUE, facts |-> seen_facts \cup EffectFactIds(op_id),
          pairs |-> seen_fact_pairs, abort |-> FALSE]
    ELSE IF interval = -2
    THEN [novel |-> TRUE, facts |-> seen_facts,
          pairs |-> seen_fact_pairs \cup EffectPairEntries(op_id, state), abort |-> FALSE]
    ELSE [novel |-> FALSE, facts |-> seen_facts, pairs |-> seen_fact_pairs, abort |-> TRUE]

\* mutant: 2-novelty crosses the effects only with the lower-numbered variables
is_novel_lower_vars(op_id, state) ==
    IF interval = -1
    THEN [novel |-> EffectFactIds(op_id) \ seen_facts # {},
          facts |-> seen_facts \cup EffectFactIds(op_id),
          pairs |-> seen_fact_pairs, abort |-> FALSE]
    ELSE IF interval = -2
    THEN LET visited == UNION {{visit_fact_pair_entry(get_fact_id(f[1], f[2]),
                                                      get_fact_id(var2, state[var2])) :
                                    var2 \in {v \in Vars : v < f[1]}} : f \in Eff(op_id)}
         IN  [novel |-> visited \ seen_fact_pairs # {}, facts |-> seen_facts,
              pairs |-> seen_fact_pairs \cup visited, abort |-> FALSE]
    ELSE [novel |-> FALSE, facts |-> seen_facts, pairs |-> seen_fact_pairs, abort |-> TRUE]

\* is_novel: the value returned and the seen-sets after the call
is_novel(op_id, state) ==
    IF interval = -1
    THEN [novel |-> EffectFactIds(op_id) \ seen_facts # {},
          facts |-> seen_facts \cup EffectFactIds(op_id),
          pairs |-> seen_fact_pairs, abort |-> FALSE]
    ELSE IF interval = -2
    THEN [novel |-> EffectPairEntries(op_id, state) \ seen_fact_pairs # {},
          facts |-> seen_facts,
          pairs |-> seen_fact_pairs \cup EffectPairEntries(op_id, state), abort |-> FALSE]
    ELSE [novel |-> FALSE, facts |-> seen_facts, pairs |-> seen_fact_pairs, abort |-> TRUE]

\* facts and fact pairs of a state, as ids
StateFactIds(state) == {get_fact_id(v, state[v]) : v \in Vars}
StatePairEntries(state) ==
    {<<get_fact_id(v1, state[v1]), get_fact_id(v2, state[v2])>> :
        v1 \in Vars, v2 \in Vars} \cap {e \in (0..(num_facts - 1)) \X (0..(num_facts - 1)) : e[1] < e[2]}

-----------------------------------------------------------------------------
(* Online SCP heuristic: construction and the three entry points.  The      *)
(* caller is a search: it generates states from the initial state by        *)
(* applying operators, notifies every transition and evaluates generated    *)
(* states.                                                                  *)

\* id of a registered state (the index of per-state information)
StateId(state) == hash_index(FullPattern, state)
StateIds == {StateId(state) : state \in States}
StateOfId(id) == CHOOSE state \in States : StateId(state) = id

\* cost vectors of the task: operators 0, 1 and 3 cost MaxCost, the cost of
\* operator 2 ranges over 0..MaxCost
OnlineCosts == {c \in [Ops -> 0..MaxCost] : \A o \in Ops \ {2} : c[o] = MaxCost}

Orders == AllOrders(NumAbstractions)
IdVectors == {get_abstract_state_ids(OnlinePatterns, s) : s \in States}

\* the cost partitionings of the abstractions, per cost vector and order (and,
\* for the perimeter variant, per evaluated abstract state vector)
ScpOfOrder ==
    Table([c \in OnlineCosts |-> Table([order \in Orders |->
        compute_saturated_cost_partitioning(OnlinePatterns, order, c, <<>>)])])
perim_passes(first, order, ids) ==
    [first |-> first.cph,
     second |-> compute_saturated_cost_partitioning(
                    OnlinePatterns, order, first.remaining, ids)]
PerimScpOfOrder ==
    Table([c \in OnlineCosts |-> Table([order \in Orders |-> Table([ids \in IdVectors |->
        perim_passes(compute_perim_saturated_cost_partitioning_change_costs(
                         OnlinePatterns, order, c, ids), order, ids)])])])

\* constructor: options drawn from their ranges, improvement active, counters
\* zero, seen-sets all false, timer stopped
OnlineInit ==
    /\ costs \in OnlineCosts
    /\ cp_order = <<>>
    /\ remaining_costs = costs
    /\ cp_last = NoAbstraction
    /\ interval \in Intervals
    /\ use_evaluated_state_as_sample \in BOOLEAN
    /\ saturator \in Saturators
    /\ max_optimization_time = 0
    /\ max_orders = INF
    /\ abstractions = OnlinePatterns
    /\ abstraction_functions = <<>>
    /\ cp_heuristics = <<>>
    /\ improve_heuristic = TRUE
    /\ size_kb = 0
    /\ num_evaluated_states = 0
    /\ num_scps_computed = 0
    /\ seen_facts = {}
    /\ seen_fact_pairs = {}
    /\ heuristic_cache = [i \in StateIds |-> NO_VALUE]
    /\ timer = [elapsed |-> 0, running |-> FALSE]
    /\ aborted = FALSE
    /\ generated = {StateId(InitialState)}
    /\ protocol = "start"
    /\ novelty_log = [i \in StateIds |-> "none"]
    /\ num_queries = 0
    /\ value_queries = 0
    /\ last = NoCall
    /\ DriverIdle
    /\ LandmarkIdle
    /\ ProjectionIdle

\* ticks a timed section may take: the clock is read up to max_time only
Ticks == {e \in 0..1 : timer.elapsed + e <= max_time}

\* ABORT: the process ends
Abort(call, state) ==
    /\ aborted' = TRUE
    /\ last' = [NoCall EXCEPT !.call = call, !.state = StateId(state)]

\* the calling discipline: notify_initial_state comes first
Disciplined == protocol = "disciplined"

\* state-based novelty of a state against the states generated so far
GeneratedStates == {t \in States : StateId(t) \in generated}
SeenStateFacts == UNION {StateFactIds(t) : t \in GeneratedStates}
SeenStatePairs == UNION {StatePairEntries(t) : t \in GeneratedStates}
HasNewFact(state) == StateFactIds(state) \ SeenStateFacts # {}
HasNewPair(state) == StatePairEntries(state) \ SeenStatePairs # {}
StateNovelty(state) ==
    IF (interval = -1 /\ HasNewFact(state)) \/ (interval = -2 /\ HasNewPair(state))
    THEN "novel" ELSE "known"

\* mutant: the initial state's facts and pairs are not pre-marked
seed_initial_state_nothing(initial_state) == [facts |-> seen_facts, pairs |-> seen_fact_pairs]

\* notify_initial_state: the seen-sets after seeding with the initial state
seed_initial_state(initial_state) ==
    IF interval = -1
    THEN [facts |-> seen_facts \cup {get_fact_id(var, initial_state[var]) : var \in Vars},
          pairs |-> seen_fact_pairs]
    ELSE [facts |-> seen_facts,
          pairs |-> seen_fact_pairs \cup
                    UNION {{visit_fact_pair_entry(get_fact_id(var1, initial_state[var1]),
                                                  get_fact_id(var2, initial_state[var2])) :
                                var2 \in {v \in Vars : v > var1}} : var1 \in Vars}]

NotifyInitialState ==
    /\ ~aborted
    /\ protocol \in {"start", "unannounced"}
    /\ LET initial_state == InitialState
       IN  IF interval >= 1
           THEN /\ last' = [NoCall EXCEPT !.call = "notify_initial_state"]
                /\ UNCHANGED <<heuristic_cache, seen_facts, seen_fact_pairs, aborted,
                               protocol>>
           ELSE /\ protocol' = IF protocol = "start" THEN "disciplined" ELSE "late"
                /\ heuristic_cache' =
                       [heuristic_cache EXCEPT ![StateId(initial_state)] = IS_NOVEL]
                /\ IF interval \in {-1, -2}
                   THEN \* once fact_id_offsets is released num_vars is 0: no mark is set
                        /\ seen_facts' = IF improve_heuristic
                                         THEN seed_initial_state(initial_state).facts
                                         ELSE seen_facts
                        /\ seen_fact_pairs' = IF improve_heuristic
                                              THEN seed_initial_state(initial_state).pairs
                                              ELSE seen_fact_pairs
                        /\ last' = [NoCall EXCEPT !.call = "notify_initial_state",
                                                  !.state = StateId(initial_state)]
                        /\ UNCHANGED aborted
                   ELSE /\ Abort("notify_initial_state", initial_state)
                        /\ UNCHANGED <<seen_facts, seen_fact_pairs>>
    /\ UNCHANGED <<driverVars, landmarkVars, projectionVars, costs, cpVars, optionVars, abstractions, abstraction_functions,
                   cp_heuristics, improve_heuristic, size_kb, num_evaluated_states,
                   num_scps_computed, timer, generated, novelty_log, num_queries,
                   value_queries>>

\* mutant: every notified successor is taken for a new state
has_no_value_always(id) == TRUE

\* heuristic_cache[global_state].h == NO_VALUE
has_no_value(id) == heuristic_cache[id] = NO_VALUE

NotifyStateTransition(parent_state, op_id, limit) ==
    /\ ~aborted
    /\ StateId(parent_state) \in generated
    /\ Applicable(op_id, parent_state)
    /\ LET global_state == Successor(op_id, parent_state)
           id == StateId(global_state)
           called == [NoCall EXCEPT !.call = "notify_state_transition", !.state = id]
       IN  /\ Cardinality(generated \cup {id}) <= limit
           /\ generated' = generated \cup {id}
           /\ IF ~improve_heuristic \/ interval >= 1
              THEN /\ last' = [NoCall EXCEPT !.call = "notify_state_transition"]
                   /\ UNCHANGED <<heuristic_cache, seen_facts, seen_fact_pairs, timer,
                                  aborted, novelty_log>>
              ELSE IF has_no_value(id)
              THEN LET r == is_novel(op_id, global_state)
                   IN  IF r.abort
                       THEN /\ Abort("notify_state_transition", global_state)
                            /\ timer' = [timer EXCEPT !.running = TRUE]
                            /\ UNCHANGED <<heuristic_cache, seen_facts, seen_fact_pairs,
                                           novelty_log>>
                       ELSE /\ heuristic_cache' =
                                   [heuristic_cache EXCEPT ![id] =
                                       IF r.novel THEN IS_NOVEL ELSE IS_NOT_NOVEL]
                            /\ seen_facts' = r.facts
                            /\ seen_fact_pairs' = r.pairs
                            /\ timer' = [timer EXCEPT !.running = FALSE]
                            /\ novelty_log' = [novelty_log EXCEPT ![id] =
                                                   StateNovelty(global_state)]
                            /\ last' = [called EXCEPT !.checked = TRUE, !.novel = r.novel]
                            /\ UNCHANGED aborted
              ELSE /\ last' = called
                   /\ UNCHANGED <<heuristic_cache, seen_facts, seen_fact_pairs, timer,
                                  aborted, novelty_log>>
    /\ protocol' = IF protocol = "start" /\ interval < 1 THEN "unannounced" ELSE protocol
    /\ UNCHANGED <<driverVars, landmarkVars, projectionVars, costs, cpVars, optionVars, abstractions, abstraction_functions,
                   cp_heuristics, improve_heuristic, size_kb, num_evaluated_states,
                   num_scps_computed, num_queries, value_queries>>

\* mutant: the counter is tested after the increment
should_compute_scp_after_increment(global_state) ==
    IF interval > 0 THEN (num_evaluated_states + 1) % interval = 0
    ELSE heuristic_cache[StateId(global_state)] = IS_NOVEL

should_compute_scp(global_state) ==
    IF interval > 0 THEN num_evaluated_states % interval = 0
    ELSE heuristic_cache[StateId(global_state)] = IS_NOVEL

\* mutant: a heuristic that only ties the stored maximum is kept too
is_diverse_on_ties(h, max_h) == use_evaluated_state_as_sample /\ h >= max_h

is_diverse(h, max_h) == use_evaluated_state_as_sample /\ h > max_h

\* mutant: the fresh value is added to the stored maximum
combine_max_h_sum(max_h, h) == max_h + h

\* max_h = max(max_h, h)
combine_max_h(max_h, h) == Max(max_h, h)

\* the abstractions some stored heuristic or the unsolvability oracle uses
useful_abstractions(cps) ==
    {a \in 1..NumAbstractions : infeasible[a] # {}} \cup
    UNION {{cps[n][m].abstraction_id : m \in 1..Len(cps[n])} : n \in 1..Len(cps)}

\* mutant: only the functions of the useful abstractions are pushed
extract_only_useful_abstraction_functions(cps, abstrs) ==
    SelectSeq(abstrs, LAMBDA pattern :
        \E a \in useful_abstractions(cps) : a <= Len(abstrs) /\ abstrs[a] = pattern)

\* mutant: every abstraction function is extracted
extract_every_abstraction_function(cps, abstrs) == abstrs

extract_useful_abstraction_functions(cps, abstrs) ==
    [a \in 1..Len(abstrs) |-> IF a \in useful_abstractions(cps) THEN abstrs[a] ELSE <<>>]

\* mutant: only the time budget ends the improvement
budget_exhausted_time_only(now) == now >= max_time

\* the budget test of the improvement phase
budget_exhausted(now) == now >= max_time \/ size_kb >= max_size_kb

\* mutant: the second pass replaces the first pass
perim_second_pass_alone(perim, h, max_h) ==
    [h |-> h, second_pass |-> h > max_h,
     cost_partitioning |-> IF h > max_h THEN perim.second ELSE perim.first]

\* mutant: the second pass is added whatever the first pass gave
perim_second_pass_always(perim, h, max_h) ==
    [h |-> h, second_pass |-> TRUE,
     cost_partitioning |-> cph_add(perim.first, perim.second)]

\* PERIMSTAR: the second pass is added if the first pass beats max_h
perim_second_pass(perim, h, max_h) ==
    [h |-> h, second_pass |-> h > max_h,
     cost_partitioning |->
         IF h > max_h THEN cph_add(perim.first, perim.second) ELSE perim.first]

perim_cost_partitioning(perim, ids, max_h) ==
    perim_second_pass(perim, cph_compute_heuristic(perim.first, ids), max_h)

one_pass_cost_partitioning(cp, ids) ==
    [h |-> cph_compute_heuristic(cp, ids), second_pass |-> FALSE, cost_partitioning |-> cp]

\* the fresh cost partitioning for a state: its value h and the heuristic kept
\* if it is stored
fresh_cost_partitioning(order, ids, max_h) ==
    IF saturator = "PERIMSTAR"
    THEN perim_cost_partitioning(PerimScpOfOrder[costs][order][ids], ids, max_h)
    ELSE one_pass_cost_partitioning(ScpOfOrder[costs][order], ids)

\* compute_heuristic from the diversity test on: the fresh cost partitioning
\* is stored if `keep`, and the maximum is returned
StoreScp(called, now, max_h, fresh, keep) ==
    /\ num_scps_computed' = num_scps_computed + 1
    /\ size_kb' = IF keep THEN size_kb + estimate_size_in_kb(fresh.cost_partitioning)
                  ELSE size_kb
    /\ cp_heuristics' = IF keep THEN Append(cp_heuristics, fresh.cost_partitioning)
                        ELSE cp_heuristics
    /\ timer' = [elapsed |-> now, running |-> FALSE]
    /\ num_evaluated_states' = num_evaluated_states + 1
    /\ value_queries' = value_queries + 1
    /\ last' = [called EXCEPT !.result = combine_max_h(max_h, fresh.h),
                              !.improving = TRUE, !.scp = TRUE,
                              !.second_pass = fresh.second_pass,
                              !.lookups = Len(cp_heuristics),
                              !.max_h = max_h, !.h = fresh.h]
    /\ UNCHANGED aborted

\* compute_heuristic once the fresh cost partitioning is computed
ComputeScp(called, now, max_h, fresh) ==
    StoreScp(called, now, max_h, fresh, is_diverse(fresh.h, max_h))

\* mutant: a dead end is counted as an evaluated state
dead_end_evaluated_counted(n) == n + 1

\* the return at the dead-end test leaves num_evaluated_states alone
dead_end_evaluated(n) == n

\* the abstract state ids of a queried state: from the abstractions while
\* improving, from the extracted abstraction functions afterwards
abstract_state_ids_of(global_state) ==
    IF improve_heuristic
    THEN get_abstract_state_ids(abstractions, global_state)
    ELSE get_abstract_state_ids(abstraction_functions, global_state)

ComputeHeuristic(global_state, elapsed) ==
    /\ ~aborted
    /\ num_queries < MaxQueries
    /\ StateId(global_state) \in generated
    /\ elapsed = 0 \/ improve_heuristic
    /\ LET ids == abstract_state_ids_of(global_state)
           now == timer.elapsed + elapsed
           called == [NoCall EXCEPT !.call = "compute_heuristic",
                                    !.state = StateId(global_state)]
       IN  IF is_unsolvable(ids)
           THEN /\ timer' = [elapsed |-> now,
                           running |-> IF improve_heuristic THEN FALSE ELSE timer.running]
                /\ num_evaluated_states' = dead_end_evaluated(num_evaluated_states)
                /\ last' = [called EXCEPT !.result = DEAD_END, !.dead_end = TRUE]
                /\ UNCHANGED <<abstractions, abstraction_functions, cp_heuristics,
                               improve_heuristic, size_kb, num_scps_computed, aborted,
                               value_queries, seen_facts, seen_fact_pairs>>
           ELSE LET max_h == compute_max_h_with_statistics(cp_heuristics, ids)
                    stop == improve_heuristic /\ budget_exhausted(now)
                    improving == improve_heuristic /\ ~stop
                IN  /\ improve_heuristic' = improving
                    /\ abstraction_functions' =
                           IF stop
                           THEN extract_useful_abstraction_functions(cp_heuristics, abstractions)
                           ELSE abstraction_functions
                    /\ abstractions' = IF stop THEN <<>> ELSE abstractions
                    /\ seen_facts' = IF stop THEN {} ELSE seen_facts
                    /\ seen_fact_pairs' = IF stop THEN {} ELSE seen_fact_pairs
                    /\ IF improving /\ interval = 0
                       THEN /\ Abort("compute_heuristic", global_state)
                            /\ timer' = [elapsed |-> now, running |-> TRUE]
                            /\ UNCHANGED <<cp_heuristics, size_kb, num_evaluated_states,
                                           num_scps_computed, value_queries>>
                       ELSE IF improving /\ should_compute_scp(global_state)
                       THEN \E order \in Orders :
                                ComputeScp(called, now, max_h,
                                           fresh_cost_partitioning(order, ids, max_h))
                       ELSE /\ timer' = [elapsed |-> now, running |-> timer.running \/ stop]
                            /\ num_evaluated_states' = num_evaluated_states + 1
                            /\ value_queries' = value_queries + 1
                            /\ last' = [called EXCEPT !.result = max_h, !.improving = improving,
                                                      !.lookups = Len(cp_heuristics),
                                                      !.max_h = max_h, !.stopped = stop]
                            /\ UNCHANGED <<cp_heuristics, size_kb, num_scps_computed, aborted>>
    /\ num_queries' = num_queries + 1
    /\ protocol' = IF protocol = "start" /\ interval < 1 THEN "unannounced" ELSE protocol
    /\ UNCHANGED <<driverVars, landmarkVars, projectionVars, costs, cpVars, optionVars, heuristic_cache, generated, novelty_log>>

OnlineNext ==
    \/ NotifyInitialState
    \/ \E parent_state \in States, op_id \in Ops :
           NotifyStateTransition(parent_state, op_id, MaxGenerated)
    \/ \E global_state \in States, elapsed \in Ticks :
           ComputeHeuristic(global_state, elapsed)

SpecOnline == OnlineInit /\ [][OnlineNext]_vars

\* a search that only generates states: the novelty bookkeeping on its own
\* the options are parsed and the constructor has not run
ConstructionInit ==
    /\ costs = UnitCosts
    /\ cp_order = <<>>
    /\ remaining_costs = costs
    /\ cp_last = NoAbstraction
    /\ interval \in {1, -1}
    /\ use_evaluated_state_as_sample \in BOOLEAN
    /\ saturator = "ONE_SHOT"
    /\ max_optimization_time \in {0, 1}
    /\ max_orders \in {1, INF}
    /\ abstractions = <<>>
    /\ abstraction_functions = <<>>
    /\ cp_heuristics = <<>>
    /\ improve_heuristic = FALSE
    /\ size_kb = 0
    /\ num_evaluated_states = 0
    /\ num_scps_computed = 0
    /\ seen_facts = {}
    /\ seen_fact_pairs = {}
    /\ heuristic_cache = <<>>
    /\ timer = [elapsed |-> 0, running |-> FALSE]
    /\ aborted = FALSE
    /\ generated = {}
    /\ protocol = "unconstructed"
    /\ novelty_log = <<>>
    /\ num_queries = 0
    /\ value_queries = 0
    /\ last = NoCall
    /\ DriverIdle
    /\ LandmarkIdle
    /\ ProjectionIdle

\* a vector after the member was move-constructed from it: empty
moved_from(cps) == <<>>

\* the sum of estimate_size_in_kb over a collection of heuristics
RECURSIVE SizeInKb(_)
SizeInKb(cps) ==
    IF cps = <<>> THEN 0
    ELSE SizeInKb(SubSeq(cps, 1, Len(cps) - 1)) + estimate_size_in_kb(cps[Len(cps)])

\* the constructor, handed these heuristics: the members are initialised (the
\* collection is moved into the member), then the two option tests end the
\* process in ABORT or the heuristic is ready for its first call; the loop that
\* adds up size_kb runs over the constructor's parameter
ConstructFrom(handed) ==
    /\ protocol = "unconstructed"
    /\ ~aborted
    /\ abstractions' = OnlinePatterns
    /\ cp_heuristics' = handed
    /\ improve_heuristic' = TRUE
    /\ size_kb' = 0 + SizeInKb(moved_from(handed))
    /\ num_evaluated_states' = 0
    /\ num_scps_computed' = 0
    /\ IF max_optimization_time # 0 \/ max_orders # INF
       THEN /\ aborted' = TRUE
            /\ last' = [NoCall EXCEPT !.call = "constructor"]
            /\ UNCHANGED <<protocol, heuristic_cache, generated, novelty_log, timer>>
       ELSE /\ protocol' = "start"
            /\ timer' = [elapsed |-> 0, running |-> FALSE]
            /\ heuristic_cache' = [i \in StateIds |-> NO_VALUE]
            /\ generated' = {StateId(InitialState)}
            /\ novelty_log' = [i \in StateIds |-> "none"]
            /\ UNCHANGED <<aborted, last>>
    /\ UNCHANGED <<driverVars, landmarkVars, projectionVars, costs, cpVars, optionVars, abstraction_functions,
                   seen_facts, seen_fact_pairs, num_queries, value_queries>>

\* _parse hands the constructor an empty collection
Construct == ConstructFrom(<<>>)

ConstructionNext ==
    \/ Construct
    \/ protocol # "unconstructed" /\ OnlineNext

SpecConstruction == ConstructionInit /\ [][ConstructionNext]_vars

\* the constructor handed a collection of cost-partitioning heuristics: none,
\* or the saturated cost partitioning of one order
HandedCpHeuristics == {<<>>} \cup {<<ScpOfOrder[costs][order]>> : order \in Orders}

HandoverInit ==
    /\ ConstructionInit
    /\ max_optimization_time = 0
    /\ max_orders = INF

HandoverNext ==
    \/ \E handed \in HandedCpHeuristics : ConstructFrom(handed)
    \/ protocol # "unconstructed" /\ OnlineNext

SpecHandover == HandoverInit /\ [][HandoverNext]_vars

NoveltyInit ==
    /\ OnlineInit
    /\ interval \in {-2, -1}
    /\ ~use_evaluated_state_as_sample
    /\ saturator = "ONE_SHOT"
    /\ costs = UnitCosts

NoveltyNext ==
    \/ NotifyInitialState
    \/ \E parent_state \in States, op_id \in Ops :
           NotifyStateTransition(parent_state, op_id, MaxNotified)

SpecNovelty == NoveltyInit /\ [][NoveltyNext]_vars

-----------------------------------------------------------------------------
(* Landmark-count heuristic: construction and compute_heuristic.  The       *)
(* landmark graph, the landmark status manager, the cost assignment and the *)
(* FF exploration are outside; what they answer is an input of the call.    *)

\* the values the landmark count and the cost-sharing value are drawn from
MaxLandmarkH == 2

CostPartitioningAlgorithms == {"OPTIMAL", "SUBOPTIMAL", "PHO"}

\* the options are parsed and the constructor has not run
LandmarkInit ==
    /\ costs = UnitCosts
    /\ cp_order = <<>>
    /\ remaining_costs = costs
    /\ cp_last = NoAbstraction
    /\ OnlineIdle
    /\ DriverIdle
    /\ exit_code = "none"
    /\ admissible \in BOOLEAN
    /\ use_preferred_operators \in BOOLEAN
    /\ cost_partitioning \in CostPartitioningAlgorithms
    /\ reasonable_orders \in BOOLEAN
    /\ conditional_effects_supported \in BOOLEAN
    /\ task_has_axioms \in BOOLEAN
    /\ task_has_conditional_effects \in BOOLEAN
    /\ lm_cost_assignment = "unset"
    /\ dead_ends_reliable = FALSE
    /\ lm_last = NoLandmarkCall
    /\ ProjectionIdle

\* mutant: the task's axioms are looked at before the landmark orders
admissible_exit_code_axioms_first ==
    IF task_has_axioms THEN "UNSUPPORTED"
    ELSE IF reasonable_orders THEN "INPUT_ERROR"
    ELSE IF task_has_conditional_effects /\ ~conditional_effects_supported THEN "UNSUPPORTED"
    ELSE "none"

\* the tests of the constructor for an admissible heuristic
admissible_exit_code ==
    IF reasonable_orders THEN "INPUT_ERROR"
    ELSE IF task_has_axioms THEN "UNSUPPORTED"
    ELSE IF task_has_conditional_effects /\ ~conditional_effects_supported THEN "UNSUPPORTED"
    ELSE "none"

\* the constructor
LandmarkConstruct ==
    /\ lm_last.call = "none"
    /\ exit_code = "none"
    /\ dead_ends_reliable' =
           (admissible \/ (~task_has_axioms /\ (~task_has_conditional_effects
                                                \/ conditional_effects_supported)))
    /\ IF admissible
       THEN /\ exit_code' = admissible_exit_code
            /\ lm_cost_assignment' = IF admissible_exit_code = "none"
                                      THEN cost_partitioning ELSE "unset"
       ELSE /\ lm_cost_assignment' = "nullptr"
            /\ UNCHANGED exit_code
    /\ lm_last' = [NoLandmarkCall EXCEPT !.call = "constructor"]
    /\ UNCHANGED <<costs, cpVars, onlineVars, driverVars, projectionVars, admissible,
                   use_preferred_operators, cost_partitioning, reasonable_orders,
                   conditional_effects_supported, task_has_axioms,
                   task_has_conditional_effects>>

\* mutant: no state is taken for a goal state
task_is_goal_state_never(state) == FALSE

\* is_goal_state(task_proxy, state)
task_is_goal_state(state) == \A f \in Goal : state[f[1]] = f[2]

\* get_heuristic_value: DEAD_END if the status manager reports a dead end,
\* else the cost-sharing value or the landmark count
get_heuristic_value(dead_end, h) == IF dead_end THEN DEAD_END ELSE h

\* compute_heuristic for a state; dead_end and h are what the status manager
\* and the landmark graph or the cost assignment answer, all_reached whether
\* every landmark is reached, helpful the operators generate_helpful_actions
\* finds, plan_found whether the FF exploration reaches a landmark leaf and
\* plan the operators of its plan
LandmarkComputeHeuristic(state, dead_end, h, all_reached, helpful, plan_found, plan) ==
    /\ lm_last.call # "none"
    /\ exit_code = "none"
    /\ LET Returns(result, status_updated, preferred) ==
               lm_last' = [call |-> "compute_heuristic", state |-> state,
                           dead_end |-> dead_end, h |-> h, result |-> result,
                           status_updated |-> status_updated, preferred |-> preferred]
       IN  IF task_is_goal_state(state) THEN Returns(0, FALSE, {})
           ELSE IF ~use_preferred_operators
           THEN Returns(get_heuristic_value(dead_end, h), TRUE, {})
           ELSE IF all_reached \/ helpful = {}
           THEN IF ~plan_found
                THEN Returns(DEAD_END, TRUE, {})
                ELSE Returns(get_heuristic_value(dead_end, h), TRUE, plan)
           ELSE Returns(get_heuristic_value(dead_end, h), TRUE, helpful)
    /\ UNCHANGED <<costs, cpVars, onlineVars, driverVars, projectionVars, exit_code, admissible,
                   use_preferred_operators, cost_partitioning, reasonable_orders,
                   conditional_effects_supported, task_has_axioms,
                   task_has_conditional_effects, lm_cost_assignment, dead_ends_reliable>>

\* the operator sets the helpful-actions generator and the FF plan are drawn from
HelpfulActions == {{}, {0}}
Plans == {{}, {1}}

LandmarkNext ==
    \/ LandmarkConstruct
    \/ \E state \in States, dead_end \in BOOLEAN, h \in 0..MaxLandmarkH,
          all_reached \in BOOLEAN, helpful \in HelpfulActions,
          plan_found \in BOOLEAN, plan \in Plans :
           LandmarkComputeHeuristic(state, dead_end, h, all_reached, helpful,
                                    plan_found, plan)

SpecLandmark == LandmarkInit /\ [][LandmarkNext]_vars

-----------------------------------------------------------------------------
(* A projection on its own: construction (hash multipliers, abstract        *)
(* operators) and the perfect hash of concrete states.                      *)

\* sum of hash_multipliers[i] * value over the facts on pattern variables
RECURSIVE FactHash(_, _, _, _)
FactHash(pattern, multipliers, facts, n) ==
    IF n = 0 THEN 0
    ELSE FactHash(pattern, multipliers, facts, n - 1) +
         (IF \E f \in facts : f[1] = pattern[n]
          THEN multipliers[n] * (CHOOSE f \in facts : f[1] = pattern[n])[2]
          ELSE 0)

\* the effects of op on pattern variables on which op has no precondition
effects_without_pre(pattern, op) ==
    {f \in Eff(op) : InPattern(pattern, f[1]) /\ ~\E p \in Pre(op) : p[1] = f[1]}

\* mutant: every pattern variable on which op has no precondition is
\* enumerated, with or without an effect of op on it
multiply_out_all_variables(pattern, op) ==
    LET unbound == {pattern[i] : i \in 1..Len(pattern)} \ {p[1] : p \in Pre(op)}
    IN  {b \in [unbound -> 0..1] : \A v \in unbound : b[v] < Dom(v)}

\* multiply_out: the combinations of values of the variables of
\* effects_without_pre, one value (# -1) for each of them
multiply_out(pattern, op) ==
    LET unbound == {f[1] : f \in effects_without_pre(pattern, op)}
    IN  {b \in [unbound -> 0..1] : \A v \in unbound : b[v] < Dom(v)}

\* the abstract operator of op in which the variables of `bound` have the
\* precondition bound[v]
AbstractOperator(pattern, multipliers, op, cost, bound) ==
    LET pre == {p \in Pre(op) : InPattern(pattern, p[1])}
                   \cup {<<v, bound[v]>> : v \in DOMAIN bound}
        eff == {f \in Eff(op) : InPattern(pattern, f[1])}
    IN  [op_id |-> op, cost |-> cost, pre |-> pre,
         pre_hash |-> FactHash(pattern, multipliers, pre, Len(pattern)),
         eff_hash_delta |->
             FactHash(pattern, multipliers, eff, Len(pattern))
             - FactHash(pattern, multipliers,
                        {p \in pre : \E f \in eff : f[1] = p[1]}, Len(pattern))]

\* the abstract operators of a concrete operator
build_abstract_operators(pattern, multipliers, op, cost) ==
    IF is_operator_relevant(pattern, op)
    THEN {AbstractOperator(pattern, multipliers, op, cost, bound) :
            bound \in multiply_out(pattern, op)}
    ELSE {}

\* Projection(task_proxy, pattern)
ConstructProjection(pattern) ==
    /\ projection' =
           [pattern |-> pattern,
            num_states |-> num_states(pattern),
            hash_multipliers |-> hash_multipliers(pattern),
            abstract_operators |->
                UNION {build_abstract_operators(pattern, hash_multipliers(pattern),
                                                op, costs[op]) : op \in Ops}]
    /\ hash_lookups' = <<>>
    /\ UNCHANGED <<costs, cpVars, onlineVars, driverVars, landmarkVars>>

\* get_abstract_state_id(concrete_state) of the constructed projection
GetAbstractStateId(concrete_state) ==
    /\ projection # NoProjection
    /\ hash_lookups' =
           (IF hash_lookups = <<>> THEN <<>> ELSE <<hash_lookups[Len(hash_lookups)]>>)
           \o <<[state |-> concrete_state,
                 id |-> get_abstract_state_id(projection.pattern, concrete_state)]>>
    /\ UNCHANGED <<costs, cpVars, onlineVars, driverVars, landmarkVars, projection>>

ProjectionInit ==
    /\ costs \in {UnitCosts, [o \in Ops |-> 0]}
    /\ cp_order = <<>>
    /\ remaining_costs = costs
    /\ cp_last = NoAbstraction
    /\ OnlineIdle
    /\ DriverIdle
    /\ LandmarkIdle
    /\ ProjectionIdle

ProjectionNext ==
    \/ \E pattern \in PatternSet : ConstructProjection(pattern)
    \/ \E concrete_state \in States : GetAbstractStateId(concrete_state)

SpecProjection == ProjectionInit /\ [][ProjectionNext]_vars

-----------------------------------------------------------------------------
(* Properties of the projection and of the saturation step *)

Processed == cp_last.pattern # <<>>

\* C3 as stated: after distances d were computed under a cost vector and
\* saturated to sat, the distances recomputed under sat equal d in every
\* abstract state.
C3_SaturationPreservesDistances ==
    Processed => compute_distances(cp_last.pattern, cp_last.sat) = cp_last.d

\* C4 as stated: under a cost vector with all entries >= 0 every distance is
\* >= 0 and a state has distance 0 exactly when it is an abstract goal state.
C4_ZeroExactlyAtGoals ==
    Processed =>
        \A i \in AbstractStates(cp_last.pattern) :
            /\ cp_last.d[i] >= 0
            /\ (cp_last.d[i] = 0) <=> is_goal_state(cp_last.pattern, i)

\* C4 amended: every distance is >= 0 (or INF) and every abstract goal state
\* has distance 0; a non-goal state has distance 0 only through operators of
\* cost 0, so with all costs > 0 the states of distance 0 are exactly the goal
\* states.
C4_ZeroAtGoals ==
    Processed =>
        \A i \in AbstractStates(cp_last.pattern) :
            /\ cp_last.d[i] >= 0
            /\ is_goal_state(cp_last.pattern, i) => cp_last.d[i] = 0
            /\ (\A o \in Ops : cp_last.before[o] > 0) /\ cp_last.d[i] = 0
                    => is_goal_state(cp_last.pattern, i)

\* a projection with goal and non-goal states evaluated under positive costs,
\* with a finite positive distance
C4_Witness ==
    /\ Processed
    /\ \A o \in Ops : cp_last.before[o] > 0
    /\ \E i, j \in AbstractStates(cp_last.pattern) :
            /\ is_goal_state(cp_last.pattern, i)
            /\ ~is_goal_state(cp_last.pattern, j)
            /\ cp_last.d[j] > 0 /\ cp_last.d[j] < INF

\* the remaining costs `after` a subtraction against those `before` it
WithinBudget(before, after) ==
    \A o \in Ops :
        /\ after[o] >= 0
        /\ after[o] <= before[o]
        /\ before[o] = INF => after[o] = INF

\* C5: whenever a saturated cost vector has been subtracted from the
\* remaining costs, by the driver when it selects a pattern with saturate
\* set or by the cost-partitioning core when it processes an abstraction,
\* every remaining cost is >= 0, none is larger than before the subtraction,
\* and a cost that was INF still is INF.
C5_SubtractionWithinBudget ==
    /\ (saturate /\ select_last.step = "selected") =>
            WithinBudget(select_last.before, select_costs)
    /\ Processed => WithinBudget(cp_last.before, remaining_costs)

\* the driver has just selected a pattern and subtracted its saturated costs:
\* one operator was forbidden before, another one got cheaper
C5_Witness ==
    /\ saturate
    /\ select_last.step = "selected"
    /\ \E o \in Ops : select_last.before[o] = INF
    /\ \E o \in Ops : select_costs[o] < select_last.before[o]

-----------------------------------------------------------------------------
(* Properties of the online SCP heuristic *)

\* goal distance of every state in the task itself, per cost vector
TrueCost ==
    Table([c \in OnlineCosts |-> Table(compute_distances(FullPattern, c))])

Returned == last.call = "compute_heuristic" /\ ~aborted
ReturnedValue == Returned /\ ~last.dead_end
NoveltyComputed == last.call = "notify_state_transition" /\ last.checked /\ ~aborted

\* C1: whenever compute_heuristic(s) returns a value other than DEAD_END, the
\* value is at most the cost of a cheapest plan from s; so are the sum of the
\* lookups of the fresh cost partitioning and the maximum over the stored ones.
C1_Admissible ==
    (Returned /\ last.result # DEAD_END) =>
        /\ last.result <= TrueCost[costs][last.state]
        /\ last.max_h <= TrueCost[costs][last.state]
        /\ last.scp => last.h <= TrueCost[costs][last.state]

\* a fresh cost partitioning with a positive value is computed for a state for
\* which the stored heuristics already give a positive value
C1_Witness ==
    /\ ReturnedValue
    /\ last.scp
    /\ last.h > 0
    /\ last.max_h > 0
    /\ last.result = TrueCost[costs][last.state]

\* C2: when the unsolvability oracle flags the abstract state vector of the
\* queried state, compute_heuristic returns DEAD_END without a lookup in a
\* stored heuristic and without computing an SCP, and the stored collection,
\* num_scps_computed, num_evaluated_states, size_kb and the improvement flag
\* are as before the call.
C2_DeadEndReturn ==
    [][(/\ num_queries' = num_queries + 1
        /\ is_unsolvable(abstract_state_ids_of(StateOfId(last'.state))))
       => /\ last'.result = DEAD_END
          /\ last'.lookups = 0
          /\ ~last'.scp
          /\ UNCHANGED <<cp_heuristics, num_scps_computed, num_evaluated_states,
                         size_kb, improve_heuristic>>]_vars

\* a dead end is reported while heuristics are stored and states were evaluated
C2_Witness ==
    /\ Returned
    /\ last.dead_end
    /\ last.result = DEAD_END
    /\ Len(cp_heuristics) > 0
    /\ num_evaluated_states > 0
    /\ improve_heuristic

\* C6: with interval = k >= 1, a query that returns a value while improvement
\* is active computes a fresh SCP iff the number of earlier queries that
\* returned a value (DEAD_END answers are not counted) is a multiple of k.
C6_EveryKthEvaluatedState ==
    (ReturnedValue /\ interval >= 1 /\ last.improving) =>
        (last.scp <=> (value_queries - 1) % interval = 0)

\* with interval 2 the third query finds one earlier query that returned a
\* value and one that returned DEAD_END, and computes no SCP
C6_Witness ==
    /\ ReturnedValue
    /\ interval = 2
    /\ last.improving
    /\ ~last.scp
    /\ num_queries = 3
    /\ value_queries = 2

\* C7 amended: with interval = -1, the calling discipline kept and a query
\* that returns a value with improvement still active (no dead end, budget not
\* used up), evaluating a generated successor computes a fresh SCP iff the successor
\* contains a fact that occurs neither in the initial state nor in a state
\* notified before it.
C7_OneNovelSuccessors ==
    (/\ ReturnedValue
     /\ interval = -1
     /\ Disciplined
     /\ last.improving
     /\ last.state # StateId(InitialState))
    => (last.scp <=> novelty_log[last.state] = "novel")

\* C7 as stated: every evaluation of a generated successor while improvement
\* is active, whatever it returns, computes a fresh SCP iff the successor is
\* 1-novel.
C7_AsStated ==
    (/\ Returned
     /\ interval = -1
     /\ Disciplined
     /\ improve_heuristic
     /\ last.state # StateId(InitialState))
    => (last.scp <=> novelty_log[last.state] = "novel")

\* a successor that only re-uses facts seen in earlier states is evaluated and
\* no SCP is computed for it
C7_Witness ==
    /\ ReturnedValue
    /\ interval = -1
    /\ Disciplined
    /\ last.improving
    /\ last.state # StateId(InitialState)
    /\ novelty_log[last.state] = "known"
    /\ ~last.scp

\* C8: with interval = -2 and the calling discipline kept, is_novel flags a
\* newly generated successor iff the successor contains a pair of facts of two
\* distinct variables that occur together neither in the initial state nor in
\* a state notified before; after the call every pair of facts of the
\* successor is marked seen.
C8_TwoNovelSuccessors ==
    (NoveltyComputed /\ interval = -2 /\ Disciplined) =>
        /\ last.novel <=> novelty_log[last.state] = "novel"
        /\ StatePairEntries(StateOfId(last.state)) \subseteq seen_fact_pairs

\* a newly generated successor all of whose fact pairs were seen before
C8_Witness ==
    /\ NoveltyComputed
    /\ interval = -2
    /\ Disciplined
    /\ ~last.novel
    /\ novelty_log[last.state] = "known"

\* C9: is_novel returns true iff the call marked a fact (interval -1) or a
\* fact pair (interval -2) that was unseen before; a call that returns false
\* leaves the seen-sets unchanged, and no call clears a mark.
C9_IsNovelMarks ==
    [][(last'.call = "notify_state_transition" /\ last'.checked) =>
          /\ seen_facts \subseteq seen_facts'
          /\ seen_fact_pairs \subseteq seen_fact_pairs'
          /\ last'.novel <=> (seen_facts' # seen_facts \/ seen_fact_pairs' # seen_fact_pairs)
          /\ interval = -1 => seen_fact_pairs' = seen_fact_pairs
          /\ interval = -2 => seen_facts' = seen_facts]_vars

\* is_novel returned false for a newly generated state, marks being set
C9_Witness ==
    /\ NoveltyComputed
    /\ interval = -1
    /\ ~last.novel
    /\ seen_facts # {}
    /\ protocol = "late"

\* C10: a fresh cost-partitioning heuristic is appended to the stored
\* collection iff use_evaluated_state_as_sample holds and its value h at the
\* evaluated state is greater than the maximum over the heuristics stored
\* before the call; otherwise the collection is unchanged.  The collection
\* never shrinks, and never changes with use_evaluated_state_as_sample false.
C10_StoredIffDiverse ==
    [][LET computed == num_scps_computed' = num_scps_computed + 1
           max_before ==
               compute_max_h_with_statistics(
                   cp_heuristics, abstract_state_ids_of(StateOfId(last'.state)))
       IN  /\ cp_heuristics' # cp_heuristics =>
                  /\ Len(cp_heuristics') = Len(cp_heuristics) + 1
                  /\ SubSeq(cp_heuristics', 1, Len(cp_heuristics)) = cp_heuristics
           /\ cp_heuristics' # cp_heuristics <=>
                  (computed /\ use_evaluated_state_as_sample /\ last'.h > max_before)
           /\ ~use_evaluated_state_as_sample => cp_heuristics' = cp_heuristics]_vars

\* a second heuristic is stored because it beats the stored one at the state
C10_Witness ==
    /\ ReturnedValue
    /\ last.scp
    /\ use_evaluated_state_as_sample
    /\ last.h > last.max_h
    /\ Len(cp_heuristics) = 2

\* C11: improvement ends in the first query that passes the dead-end test while
\* elapsed time >= max_time or size_kb >= max_size_kb; that query computes no
\* SCP, and from then on improve_heuristic stays false: no later query computes
\* an SCP, and cp_heuristics, size_kb and num_scps_computed never change again.
C11_ImprovementEnds ==
    [][/\ (improve_heuristic /\ ~improve_heuristic') =>
              /\ last'.call = "compute_heuristic" /\ ~last'.dead_end
              /\ timer'.elapsed >= max_time \/ size_kb >= max_size_kb
              /\ ~last'.scp
              /\ UNCHANGED <<cp_heuristics, size_kb, num_scps_computed>>
       /\ ( /\ improve_heuristic /\ num_queries' = num_queries + 1
            /\ ~last'.dead_end
            /\ timer'.elapsed >= max_time \/ size_kb >= max_size_kb )
              => ~improve_heuristic'
       /\ ~improve_heuristic =>
              /\ ~improve_heuristic' /\ ~last'.scp
              /\ UNCHANGED <<cp_heuristics, size_kb, num_scps_computed>>
      ]_vars

\* a query answered after the one that ended the improvement, with SCPs
\* computed before the end
C11_Witness ==
    /\ ReturnedValue /\ ~improve_heuristic /\ ~last.stopped
    /\ num_scps_computed > 0

\* C12: when improvement ends, abstraction_functions gets one slot per
\* abstraction, in abstraction order; slot i holds the abstraction function of
\* abstraction i iff the unsolvability oracle or a stored cost-partitioning
\* heuristic marks i useful, and is null otherwise; afterwards the abstraction
\* list is empty and the novelty structures are released.
C12_UsefulAbstractionFunctions ==
    [][/\ (improve_heuristic /\ ~improve_heuristic') =>
              /\ Len(abstraction_functions') = Len(abstractions)
              /\ \A i \in 1..Len(abstractions) :
                     abstraction_functions'[i] =
                         IF \/ infeasible[i] # {}
                            \/ \E n \in 1..Len(cp_heuristics) :
                                   \E m \in 1..Len(cp_heuristics[n]) :
                                       cp_heuristics[n][m].abstraction_id = i
                         THEN abstractions[i] ELSE <<>>
       /\ ~improve_heuristic' =>
              /\ abstractions' = <<>>
              /\ seen_facts' = {} /\ seen_fact_pairs' = {}
       /\ ~improve_heuristic => abstraction_functions' = abstraction_functions
      ]_vars

\* improvement has just ended with no stored cost partitioning: only the
\* abstraction the oracle marks has its function extracted
C12_Witness ==
    /\ ReturnedValue /\ last.stopped /\ cp_heuristics = <<>>
    /\ abstraction_functions = << <<>>, OnlinePatterns[2] >>

\* the perimeter pass of an order at ids, then the full pass from the costs the
\* perimeter pass left, added to it
perim_sum(perim, ids) ==
    [h |-> cph_compute_heuristic(perim.first, ids),
     cost_partitioning |-> cph_add(perim.first, perim.second)]
perim_then_full(order, ids) == perim_sum(PerimScpOfOrder[costs][order][ids], ids)

\* C13: with PERIMSTAR every query that computes an SCP increases
\* num_scps_computed by exactly 1; the full saturation pass is computed from the
\* costs the perimeter pass left and added to the cost partitioning iff the
\* perimeter value h is strictly greater than max_h, and skipped otherwise.
C13_PerimStarSecondPass ==
    [][(saturator = "PERIMSTAR" /\ last'.scp /\ num_queries' = num_queries + 1) =>
          /\ num_scps_computed' = num_scps_computed + 1
          /\ last'.second_pass <=> last'.h > last'.max_h
          /\ cp_heuristics' # cp_heuristics =>
                 \E order \in Orders :
                     perim_then_full(order, get_abstract_state_ids(
                                                OnlinePatterns, StateOfId(last'.state))) =
                         [h |-> last'.h,
                          cost_partitioning |-> cp_heuristics'[Len(cp_heuristics')]]
      ]_vars

\* an SCP query under PERIMSTAR whose perimeter value does not beat a positive
\* max_h: the full pass is skipped
C13_Witness ==
    /\ saturator = "PERIMSTAR" /\ ReturnedValue /\ last.scp
    /\ ~last.second_pass /\ last.max_h > 0 /\ last.h <= last.max_h
    /\ num_scps_computed = 2

-----------------------------------------------------------------------------
(* Properties of the sequential pattern generator *)

\* the patterns by pattern id (position id + 1), as the generator holds them
PatternsById(ords) == Concat(ords, Len(ords))

SizeOrdered(patterns) ==
    \A i, j \in 1..Len(patterns) : i < j => Len(patterns[i]) <= Len(patterns[j])

\* the last call was get_pattern
GotPatternCall(step) == step \in {"get_pattern", "get_pattern_expired"}

\* C14: after any sequence of get_pattern and restart calls the patterns are
\* enumerated in non-decreasing size: by increasing pattern id the patterns held
\* never get smaller, no call changes the size of the pattern of an id, and
\* get_pattern returns the pattern held for the id.
C14_NonDecreasingSize ==
    [][/\ SizeOrdered(PatternsById(orders'))
       /\ \A n \in 1..Len(PatternsById(orders)) :
              /\ n <= Len(PatternsById(orders'))
              /\ Len(PatternsById(orders')[n]) = Len(PatternsById(orders)[n])
       /\ (GotPatternCall(select_last'.step) /\ select_last'.pattern # <<>>) =>
              select_last'.pattern = PatternsById(orders')[pattern_id' + 1]
      ]_vars

\* the largest pattern is handed out last, after a restart that reordered a bucket
C14_Witness ==
    /\ driver_pc = "generator" /\ pattern_order = "RANDOM"
    /\ current_order_type = "RANDOM"
    /\ select_last.step = "get_pattern" /\ pattern_id = 5
    /\ Len(select_last.pattern) = 3
    /\ orders[2] # get_patterns(2)

\* number of interesting patterns of at most this size
NumInteresting(size) ==
    Cardinality({n \in 1..Len(AllPatterns) :
                    interesting(AllPatterns[n]) /\ Len(AllPatterns[n]) <= size})

\* the pattern size up to which a call for id materialises: none beyond what
\* is cached if the id is materialised, else the first size that covers the id
MaterialisedFor(id, cached) ==
    IF \E c \in cached..Min(max_pattern_size, NumVars) : id < NumInteresting(c)
    THEN SetMin({c \in cached..Min(max_pattern_size, NumVars) : id < NumInteresting(c)})
    ELSE Min(max_pattern_size, NumVars)

SortedBy(bucket, order_type, used) ==
    \A i, j \in 1..Len(bucket) :
        i < j => IF order_type \in DownOrders
                 THEN ~PairLess(sort_key(bucket[i], order_type, used),
                                sort_key(bucket[j], order_type, used))
                 ELSE ~PairLess(sort_key(bucket[j], order_type, used),
                                sort_key(bucket[i], order_type, used))

SamePatterns(bucket, other) ==
    /\ Len(bucket) = Len(other)
    /\ {bucket[i] : i \in 1..Len(bucket)} = {other[i] : i \in 1..Len(other)}

\* the order types that sort by a score or a pair of scores
ScoreOrders == AllPatternOrders \ {"ORIGINAL", "REVERSE", "RANDOM", "ALT_TWO"}

\* C16: restart recomputes the order inside every cached bucket only for
\* RANDOM, NEW_VAR_PAIRS_UP, NEW_VAR_PAIRS_DOWN and ALT_TWO (each bucket keeps
\* its patterns and is ordered by the order type drawn); for every other order
\* type restart leaves the patterns of all pattern ids as they are.
C16_RestartRecomputes ==
    [][select_last'.step = "restart" =>
          /\ cached_pattern_size' = cached_pattern_size
          /\ Len(orders') = Len(orders)
          /\ pattern_order \notin RestartOrders => orders' = orders
          /\ pattern_order \in RestartOrders =>
                 \A k \in 1..Len(orders) :
                     /\ SamePatterns(orders'[k], orders[k])
                     /\ current_order_type' \in ScoreOrders =>
                            SortedBy(orders'[k], current_order_type', used_var_pairs')
      ]_vars

\* a restart under PDB_SIZE_UP with a bucket that was shuffled when it was
\* materialised: the restart kept that order
C16_Witness ==
    /\ driver_pc = "generator" /\ pattern_order = "PDB_SIZE_UP"
    /\ select_last.step = "restart" /\ cached_pattern_size = 3
    /\ orders[2] # get_patterns(2)

\* position of a pattern in its bucket as the systematic generator inserted it
InsertionPosition(pattern) ==
    CHOOSE n \in 1..Len(AllPatterns) : AllPatterns[n] = pattern

TiesKeepInsertionOrder(bucket, order_type, used) ==
    \A i, j \in 1..Len(bucket) :
        (i < j /\ sort_key(bucket[i], order_type, used) =
                  sort_key(bucket[j], order_type, used)) =>
            InsertionPosition(bucket[i]) < InsertionPosition(bucket[j])

\* C17 (amended): every run of compute_pattern_order with a score-based order
\* type leaves the bucket ordered by score (non-decreasing for UP and the
\* composite order types, non-increasing for DOWN); patterns of equal score
\* come in any order.
C17_OrderedByScore ==
    [][/\ GotPatternCall(select_last'.step) =>
              \A k \in (cached_pattern_size + 1)..cached_pattern_size' :
                  default_order_type \in ScoreOrders =>
                      SortedBy(orders'[k], default_order_type, used_var_pairs')
       /\ (select_last'.step = "restart" /\ pattern_order \in RestartOrders
              /\ current_order_type' \in ScoreOrders) =>
              \A k \in 1..Len(orders') :
                  SortedBy(orders'[k], current_order_type', used_var_pairs')
      ]_vars

\* C17 as stated: patterns of equal score keep the order in which the
\* systematic generator inserted them, in every run of compute_pattern_order.
C17_AsStated ==
    [][/\ GotPatternCall(select_last'.step) =>
              \A k \in (cached_pattern_size + 1)..cached_pattern_size' :
                  default_order_type \in ScoreOrders =>
                      TiesKeepInsertionOrder(orders'[k], default_order_type,
                                             used_var_pairs')
       /\ (select_last'.step = "restart" /\ pattern_order \in RestartOrders
              /\ current_order_type' \in ScoreOrders) =>
              \A k \in 1..Len(orders') :
                  TiesKeepInsertionOrder(orders'[k], current_order_type', used_var_pairs')
      ]_vars

\* under CG_MIN_UP the bucket of size 2 holds [0,2] before [0,1], which have
\* the same score and were inserted the other way round
C17_Witness ==
    /\ driver_pc = "generator" /\ pattern_order = "CG_MIN_UP"
    /\ cached_pattern_size >= 2
    /\ orders[2] = << <<0, 2>>, <<0, 1>>, <<1, 2>> >>

\* C18 as stated: under ALT_TWO, within a restart every bucket a pattern is
\* handed out from, a bucket materialised during that restart included, is
\* ordered by the criterion drawn for that restart.
C18_BucketsFollowRestartChoice ==
    [][(/\ pattern_order = "ALT_TWO" /\ current_order_type # "NONE"
        /\ GotPatternCall(select_last'.step) /\ select_last'.pattern # <<>>) =>
           SortedBy(orders'[Len(select_last'.pattern)], current_order_type,
                    used_var_pairs')
      ]_vars

-----------------------------------------------------------------------------
(* Properties of the driver's collection *)

\* C19: in every reachable state of the driver the projection collection holds
\* no pattern twice, across all restarts, and pattern_set is exactly the set of
\* the patterns of the projections in the collection.
C19_NoPatternTwice ==
    /\ \A i, j \in 1..Len(projections) : i # j => projections[i] # projections[j]
    /\ pattern_set = {projections[i] : i \in 1..Len(projections)}

\* in a later restart a pattern selected before comes again and is skipped
C19_Witness ==
    /\ driver_pc = "select" /\ select_last.step = "duplicate"
    /\ num_patterns_before >= 1
    /\ select_last.pattern \in pattern_set

RECURSIVE SumPdbSizes(_, _)
SumPdbSizes(projs, n) ==
    IF n = 0 THEN 0 ELSE SumPdbSizes(projs, n - 1) + get_pdb_size(projs[n])

\* C20: in every reachable state of the driver the number of projections is at
\* most max_patterns, the PDB size of every selected pattern is at most
\* max_pdb_size, and collection_size is the sum of the PDB sizes of the
\* selected patterns and, unless max_collection_size is infinity, at most
\* max_collection_size.
C20_BudgetsHold ==
    /\ Len(projections) <= max_patterns
    /\ \A i \in 1..Len(projections) :
           get_pdb_size(projections[i]) # -1 /\ get_pdb_size(projections[i]) <= max_pdb_size
    /\ collection_size = SumPdbSizes(projections, Len(projections))
    /\ max_collection_size # INF => collection_size <= max_collection_size

\* the restart ends at the limit on the number of projections, with a finite
\* limit on the collection size that the collection stays below
C20_Witness ==
    /\ driver_pc = "returned" /\ select_last.step = "max_patterns"
    /\ Len(projections) = max_patterns /\ max_patterns = MaxPatterns
    /\ max_collection_size # INF /\ collection_size = max_collection_size

\* the ways select_systematic_patterns returns
RestartEnds == {"exhausted", "max_patterns", "max_collection_size", "expired",
                "expired_in_get_patterns"}

\* C21: generate terminates, also when no timer ever expires: every restart
\* ends (generator exhausted, a limit reached or the restart timer expired),
\* generate stops after a restart that added no pattern, reached a limit or
\* found the overall timer expired, and a restart that is followed by another
\* one added at least one new pattern
C21_GenerateTerminates ==
    /\ <>(driver_pc = "done")
    /\ [][/\ (driver_pc = "select" /\ driver_pc' # "select")
              => (driver_pc' = "returned" /\ select_last'.step \in RestartEnds)
          /\ (driver_pc = "returned" /\ driver_pc' = "generate")
              => /\ Len(projections) > num_patterns_before
                 /\ ~limit_reached
                 /\ Cardinality(pattern_set) = Len(projections)
          /\ driver_pc = "returned" => driver_pc' \in {"generate", "done"}]_vars

\* generate ended after a restart that walked all patterns and added none,
\* and an earlier restart had added patterns
C21_Witness ==
    /\ driver_pc = "done"
    /\ select_last.step = "exhausted"
    /\ ~limit_reached
    /\ Len(projections) = num_patterns_before
    /\ num_patterns_before > 0

\* the last pass of the loop of select_systematic_patterns got as far as the
\* test of ignore_useless_patterns
ReachedUselessTest(step) == step \in {"free_operators", "selected", "rejected"}

\* every operator with an effect on a variable of the pattern costs 0 or
\* +infinity under the cost vector c
OnlyFreeOperators(pattern, c) ==
    \A o \in Ops :
        (\E f \in Eff(o) : InPattern(pattern, f[1])) => c[o] \in {0, INF}

-----------------------------------------------------------------------------
(* Properties of the pattern evaluator *)

\* the evaluator was asked about a pattern under this treatment
Evaluated(treatment) ==
    /\ driver_pc = "evaluator"
    /\ select_last.step \in {"selected", "rejected"}
    /\ dead_end_treatment = treatment

\* the goal distances of the materialised projection, computed next to the verdict
GoalDistances == compute_distances(select_last.pattern, select_last.before)

\* C23: with saturate and the treatment IGNORE the evaluator's verdict is the
\* one the materialised projection gives: the pattern is selected iff the
\* goal-distance table under the current costs has a value d with 0 < d < INF
C23_EvaluatorAgreesWithProjection ==
    Evaluated("IGNORE")
    => (select_last.step = "selected"
        <=> \E i \in DOMAIN GoalDistances : 0 < GoalDistances[i] /\ GoalDistances[i] < INF)

\* a useless pattern although an operator of positive finite cost changes its
\* abstract states, and a useful one
C23_Witness ==
    /\ Evaluated("IGNORE")
    /\ select_last.step = "rejected"
    /\ \E o \in Ops : /\ TransitionTable[select_last.pattern][o] # {}
                       /\ 0 < select_last.before[o] /\ select_last.before[o] < INF
    /\ \E i \in DOMAIN GoalDistances : GoalDistances[i] = INF

\* the abstract states with distance INF that have a non-goal predecessor with
\* a finite distance
DeadEndsWithPredecessor ==
    {s \in DOMAIN GoalDistances :
        /\ GoalDistances[s] = INF
        /\ \E j \in DOMAIN GoalDistances :
               /\ GoalDistances[j] # INF
               /\ j \notin goal_states[select_last.pattern]
               /\ \E o \in Ops : <<j, s>> \in TransitionTable[select_last.pattern][o]}

-----------------------------------------------------------------------------
(* Properties of the construction of the heuristics *)

\* order optimization is requested or the number of orders is limited
ContradictoryOptions == max_optimization_time # 0 \/ max_orders # INF

\* the constructor of the online heuristic has run
ConstructorRan == aborted \/ protocol # "unconstructed"

\* C25: constructing the online heuristic with order optimization requested
\* or with a limit on the number of orders ends the process with the exit
\* code INPUT_ERROR; no heuristic is produced and no query is answered
C25_InputErrorOnContradictoryOptions ==
    (ContradictoryOptions /\ ConstructorRan)
    => /\ exit_code = "INPUT_ERROR"
       /\ last.call = "constructor"
       /\ num_queries = 0

\* the constructor of the landmark-count heuristic has run
LandmarkConstructorRan == lm_last.call # "none"

\* C26: constructing the landmark-count heuristic with admissible = true
\* exits with INPUT_ERROR if the landmark factory uses reasonable orders,
\* otherwise with UNSUPPORTED if the task has axioms, otherwise with
\* UNSUPPORTED if the task has conditional effects the factory does not
\* support; with admissible = false it never exits and creates no cost
\* assignment
C26_LandmarkConstructionExits ==
    LandmarkConstructorRan
    => /\ admissible /\ reasonable_orders => exit_code = "INPUT_ERROR"
       /\ admissible /\ ~reasonable_orders /\ task_has_axioms => exit_code = "UNSUPPORTED"
       /\ (admissible /\ ~reasonable_orders /\ ~task_has_axioms
           /\ task_has_conditional_effects /\ ~conditional_effects_supported)
              => exit_code = "UNSUPPORTED"
       /\ (admissible /\ ~reasonable_orders /\ ~task_has_axioms
           /\ (~task_has_conditional_effects \/ conditional_effects_supported))
              => exit_code = "none" /\ lm_cost_assignment \in CostPartitioningAlgorithms
       /\ ~admissible => exit_code = "none" /\ lm_cost_assignment = "nullptr"
       /\ exit_code # "none" => lm_last.call = "constructor"

\* reasonable orders and axioms together: the process exited with INPUT_ERROR
C26_Witness ==
    /\ LandmarkConstructorRan
    /\ admissible
    /\ reasonable_orders
    /\ task_has_axioms
    /\ exit_code = "INPUT_ERROR"

\* C27: compute_heuristic of the landmark-count heuristic returns 0 for
\* every goal state, whatever the landmark status says; for a goal state it
\* does not return DEAD_END and sets no preferred operator
C27_GoalStatesGetZero ==
    (/\ lm_last.call = "compute_heuristic"
     /\ \A f \in Goal : lm_last.state[f[1]] = f[2])
    => /\ lm_last.result = 0
       /\ lm_last.preferred = {}
       /\ ~lm_last.status_updated

\* a goal state for which the landmark status reports a dead end, and one for
\* which landmarks count as not reached, with preferred operators requested
C27_Witness ==
    /\ lm_last.call = "compute_heuristic"
    /\ \A f \in Goal : lm_last.state[f[1]] = f[2]
    /\ use_preferred_operators
    /\ lm_last.dead_end \/ lm_last.h > 0
    /\ lm_last.result = 0

-----------------------------------------------------------------------------
(* Properties of a projection on its own *)

\* the values of the pattern variables that the index decodes to
Decoded(pattern, index) == [i \in 1..Len(pattern) |-> ValueAt(pattern, index, i)]

\* the values of the pattern variables in a concrete state
Projected(pattern, state) == [i \in 1..Len(pattern) |-> state[pattern[i]]]

\* C28: the index get_abstract_state_id gives a concrete state decodes, with
\* the hash multipliers, to the state's values of the pattern variables; it
\* lies in 0..num_states-1; two states get the same index iff they agree on
\* all pattern variables
C28_HashRoundTrip ==
    \A k \in 1..Len(hash_lookups) :
        /\ Decoded(projection.pattern, hash_lookups[k].id)
               = Projected(projection.pattern, hash_lookups[k].state)
        /\ hash_lookups[k].id \in 0..(projection.num_states - 1)
        /\ \A l \in 1..Len(hash_lookups) :
               (hash_lookups[k].id = hash_lookups[l].id)
               <=> (Projected(projection.pattern, hash_lookups[k].state)
                        = Projected(projection.pattern, hash_lookups[l].state))

\* two different states that agree on the two variables of the pattern got the
\* same index, the largest of the projection
C28_Witness ==
    /\ Len(projection.pattern) = 2
    /\ Len(hash_lookups) = 2
    /\ hash_lookups[1].state # hash_lookups[2].state
    /\ hash_lookups[1].id = hash_lookups[2].id
    /\ hash_lookups[1].id = projection.num_states - 1

\* the abstract operators the projection built for a concrete operator
AbstractOperatorsOf(op) == {a \in projection.abstract_operators : a.op_id = op}

\* the abstract states in which an abstract operator applies
AppliesIn(a) ==
    {i \in AbstractStates(projection.pattern) :
        \A f \in a.pre :
            ValueAt(projection.pattern, i, PatternPos(projection.pattern, f[1])) = f[2]}

\* the (pred, succ) pairs the abstract operators of op induce
Induced(op) ==
    UNION {{<<i, i + a.eff_hash_delta>> : i \in AppliesIn(a)} : a \in AbstractOperatorsOf(op)}

\* number of combinations of values of the pattern variables among `variables`
RECURSIVE Combinations(_, _, _)
Combinations(pattern, variables, n) ==
    IF n = 0 THEN 1
    ELSE Combinations(pattern, variables, n - 1) *
         (IF pattern[n] \in variables THEN Dom(pattern[n]) ELSE 1)

-----------------------------------------------------------------------------
(* Properties of the pattern order by PDB size *)

\* the domain sizes are powers of two: the exponent of a domain size, and of
\* the product of the domain sizes of the variables of a pattern (the product
\* of two patterns compares as the exponents do, and it exceeds the int range
\* iff its exponent is above 30)
Log2(n) == CHOOSE e \in 0..30 : 2^e = n
RECURSIVE DomainSizeProduct(_)
DomainSizeProduct(pattern) ==
    IF pattern = <<>> THEN 0
    ELSE Log2(domains[Head(pattern) + 1]) + DomainSizeProduct(Tail(pattern))

\* the patterns of every materialised size bucket stand in the order of the
\* products of their domain sizes
OrderedByDomainSizeProduct ==
    \A k \in 1..Len(orders) :
        \A i, j \in 1..Len(orders[k]) :
            i < j =>
                IF pattern_order = "PDB_SIZE_UP"
                THEN DomainSizeProduct(orders[k][i]) <= DomainSizeProduct(orders[k][j])
                ELSE DomainSizeProduct(orders[k][i]) >= DomainSizeProduct(orders[k][j])

\* no selected pattern has a product of domain sizes beyond the int range
OverflowingNeverSelected ==
    \A i \in 1..Len(projections) : DomainSizeProduct(projections[i]) <= 30

\* generate goes on: the process has neither exited nor aborted
OverflowNeverSurfaced == exit_code = "none" /\ ~aborted

\* C30: under PDB_SIZE_UP (PDB_SIZE_DOWN) the patterns of a size bucket are
\* handed out in non-decreasing (non-increasing) product of the domain sizes
\* of their variables, also when the product exceeds the int range; a pattern
\* whose product overflows is never selected, and the overflow is never
\* surfaced as an error
C30_OrderedByPdbSize ==
    pattern_order \in {"PDB_SIZE_UP", "PDB_SIZE_DOWN"} =>
        /\ OrderedByDomainSizeProduct
        /\ OverflowingNeverSelected
        /\ OverflowNeverSurfaced

-----------------------------------------------------------------------------
(* Properties of the online heuristic: ownership, frames, timer, size *)

-----------------------------------------------------------------------------
(* Properties of the pattern generator under an expiring restart timer      *)

\* both hold the same patterns, each once
SameBucket(bucket, patterns) ==
    /\ Len(bucket) = Len(patterns)
    /\ {bucket[i] : i \in 1..Len(bucket)} = {patterns[i] : i \in 1..Len(patterns)}
    /\ \A i, j \in 1..Len(bucket) : bucket[i] = bucket[j] => i = j

-----------------------------------------------------------------------------
(* Properties of the generator's bookkeeping *)

\* the counter num_generated_patterns as get_pattern maintains it: the sizes of
\* the buckets materialised so far, added up
RECURSIVE GeneratedCount(_)
GeneratedCount(cached) ==
    IF cached = 0 THEN 0 ELSE GeneratedCount(cached - 1) + Len(get_patterns(cached))

-----------------------------------------------------------------------------
(* Properties of the novelty notifications of the online heuristic *)

\* the seen facts, the seen fact pairs or a novelty flag change in the step
NoveltyChanged ==
    \/ heuristic_cache' # heuristic_cache
    \/ seen_facts' # seen_facts
    \/ seen_fact_pairs' # seen_fact_pairs

ReachableFactPairCalls ==
    initial_fact_pair_calls(InitialState) \cup
    UNION {fact_pair_calls(op_id, Successor(op_id, parent_state)) :
               <<op_id, parent_state>> \in
                   {x \in Ops \X States : /\ StateId(x[2]) \in generated
                                          /\ Applicable(x[1], x[2])}}

\* C35: the two fact ids of every call of visit_fact_pair made by
\* notify_initial_state and is_novel differ, so the smaller id comes first
\* after the swap; the call with the arguments exchanged reads and sets the
\* same entry; and only entries [i][j] with i < j of the matrix are set.
C35_FactPairsOrdered ==
    /\ \A c \in ReachableFactPairCalls :
           /\ c[1] # c[2]
           /\ visit_fact_pair_entry(c[1], c[2])[1] < visit_fact_pair_entry(c[1], c[2])[2]
           /\ visit_fact_pair_entry(c[1], c[2]) = visit_fact_pair_entry(c[2], c[1])
           /\ visit_fact_pair_entry(c[1], c[2]) \in {<<c[1], c[2]>>, <<c[2], c[1]>>}
    /\ \A e \in seen_fact_pairs : e[1] < e[2]

\* 2-novelty: the last transition made is_novel call visit_fact_pair with the
\* larger id first, and the entry with the ids exchanged is set
C35_Witness ==
    /\ interval = -2 /\ last.call = "notify_state_transition" /\ last.checked
    /\ \E op_id \in Ops :
           \E c \in fact_pair_calls(op_id, StateOfId(last.state)) :
               /\ c[1] > c[2]
               /\ <<c[2], c[1]>> \in seen_fact_pairs
               /\ <<c[2], c[1]>> \notin
                      {visit_fact_pair_entry(i[1], i[2]) :
                           i \in initial_fact_pair_calls(InitialState)}

-----------------------------------------------------------------------------
(* Properties of the driver's cost vector *)

\* C36: the cost vector of select_systematic_patterns starts every restart as
\* the operator costs of the task, so the first pattern of a restart is looked
\* at under the original costs, whatever earlier restarts subtracted; within a
\* restart it changes only when a pattern is selected with saturate = true,
\* by the saturated costs of that pattern.
C36_CostsResetPerRestart ==
    [][/\ (driver_pc = "generate" /\ driver_pc' = "select") => select_costs' = costs
       /\ (driver_pc = "select" /\ pattern_id' = 0 /\ select_last'.before # <<>>) =>
              select_last'.before = costs
       /\ (driver_pc = "select" /\ select_costs' # select_costs) =>
              /\ saturate
              /\ select_last'.step = "selected"
              /\ select_costs' = reduce_costs(select_costs, select_last'.saturated_costs)
       /\ driver_pc \notin {"generate", "select"} => select_costs' = select_costs
      ]_vars

\* the cost vector the first selected pattern left in its restart
CostsAfterFirstSelection ==
    reduce_costs(costs, compute_saturated_costs(projections[1],
                                                compute_distances(projections[1], costs)))

\* a later restart looks at its first pattern under the original costs although
\* the first pattern selected earlier had lowered them
C36_Witness ==
    /\ saturate /\ driver_pc = "select" /\ pattern_id = 0
    /\ num_patterns_before > 0
    /\ select_last.before = costs
    /\ CostsAfterFirstSelection # costs

-----------------------------------------------------------------------------
(* Properties of the improvement timer *)

\* C37: whenever compute_heuristic or notify_state_transition has returned,
\* the improvement timer is stopped, on every path: dead end, improvement
\* ending in the call, cost partitioning computed or not.
C37_TimerBalanced == ~aborted => ~timer.running

\* what holds instead: between two calls the timer runs only once the
\* improvement has ended, and from then on it is never stopped
TimerStoppedWhileImproving == (~aborted /\ improve_heuristic) => ~timer.running
TimerLeftRunning == [][(~improve_heuristic /\ ~aborted') => timer'.running]_vars

-----------------------------------------------------------------------------
(* Properties of the size accumulator *)

SizeCountsStoredSinceConstruction ==
    [][protocol # "unconstructed" =>
          /\ size_kb' - size_kb = SizeInKb(cp_heuristics') - SizeInKb(cp_heuristics)
          /\ size_kb' >= size_kb
          /\ size_kb' # size_kb =>
                 /\ last'.call = "compute_heuristic" /\ last'.scp
                 /\ Len(cp_heuristics') = Len(cp_heuristics) + 1
          /\ cp_heuristics' # cp_heuristics => size_kb' > size_kb
      ]_vars

-----------------------------------------------------------------------------
(* Properties of the option interval *)

\* C39: for every value of interval the option parser accepts, no call of
\* notify_initial_state, notify_state_transition or compute_heuristic ends in
\* the abort "invalid value for interval".
C39_NoAcceptedIntervalAborts ==
    ~(/\ interval \in Intervals
      /\ aborted
      /\ last.call \in {"notify_initial_state", "notify_state_transition",
                        "compute_heuristic"})

\* what holds instead: the abort is reached for interval = 0 and for no other
\* accepted value
AbortOnlyForIntervalZero == aborted => interval = 0

-----------------------------------------------------------------------------
(* Properties of the value of a query that stores a heuristic *)

\* the last call was a query that stored a new cost-partitioning heuristic
StoredByLastQuery ==
    /\ last.call = "compute_heuristic" /\ last.scp
    /\ Len(cp_heuristics) = last.lookups + 1

\* the maximum over the stored heuristics at the state of the last call: what a
\* query of the same state returns if it computes no cost partitioning
StoredMaxAtLastState ==
    compute_max_h_with_statistics(
        cp_heuristics, get_abstract_state_ids(OnlinePatterns, StateOfId(last.state)))

\* C40: the value returned by a query that stores a new cost-partitioning
\* heuristic is the maximum over the stored heuristics at that state right
\* after the call, for ONE_SHOT and for PERIMSTAR.
C40_ReturnedIsStoredMax ==
    StoredByLastQuery => last.result = StoredMaxAtLastState

\* PERIMSTAR stored both passes for the state of the last call, and the second
\* pass raises the stored heuristic at some other state
C40_Witness ==
    /\ saturator = "PERIMSTAR" /\ StoredByLastQuery /\ last.second_pass
    /\ last.result > 0
    /\ \E order \in Orders :
           LET perim  == PerimScpOfOrder[costs][order][
                             get_abstract_state_ids(OnlinePatterns, StateOfId(last.state))]
               stored == cp_heuristics[Len(cp_heuristics)]
           IN  /\ stored = cph_add(perim.first, perim.second)
               /\ \E ids \in IdVectors :
                      cph_compute_heuristic(stored, ids) >
                          cph_compute_heuristic(perim.first, ids)

==============================================================================
